---- MODULE Spec2Model ----
(***************************************************************************)
(* Verification model of the analysis and backtesting core of columb:      *)
(*   analysis/rankings.py       calculate_rankings, rank_by_metric         *)
(*   analysis/opportunities.py  OpportunityDetector                        *)
(*   backtest/engine.py         BacktestEngine                             *)
(*                                                                         *)
(* Numbers.  Python floats are modelled by scaled integers:                *)
(*   prices            in tenths of a price unit   (100.5 -> 1005)         *)
(*   take_profit/stop  in tenths of a percent      (3.0   -> 30)           *)
(*   a pnl percentage  as the exact fraction num/den with den > 0          *)
(*   clock readings    in whole seconds                                    *)
(* Python's None is the value None below; a dict is a function whose       *)
(* DOMAIN is its key set, and a dict's iteration order is kept as an       *)
(* explicit sequence where the code depends on it.                         *)
(***************************************************************************)
EXTENDS Integers, Sequences, FiniteSets, TLC

VARIABLES
    \* ---- ranking engine (analysis/rankings.py) ----
    metrics,        \* input mapping of calculate_rankings, as list(metrics.values())
    rankings,       \* result of calculate_rankings (symbol -> RankingRecord)
    rankPc,         \* "idle" | "data" | "input" | "done" | "again"
    candle_data,    \* the historical_data handed to calculate_all_metrics
    \* ---- single trade simulation (backtest/engine.py) ----
    symbol_data,    \* candles of one instrument: <<[close, timestamp], ...>>
    tradeArgs,      \* arguments of _simulate_single_trade
    tradeResult,    \* its return value (None or a SimulatedTrade)
    tradePc,        \* "idle" | "input" | "done"
    \* ---- OpportunityDetector (analysis/opportunities.py) ----
    detected_opportunities, \* self.detected_opportunities: [long: set, short: set]
    last_detection_time,    \* self.last_detection_time (None or a clock reading)
    ranking_history,        \* self.ranking_history: <<[timestamp, rankings], ...>>
    opportunities,          \* 'current' of the last detect_opportunities result
    clock,                  \* the latest datetime.now() reading, in seconds
    detCalls,               \* number of detect_opportunities calls made
    snapshot_log,           \* every snapshot ever appended to ranking_history, in order
    \* ---- BacktestEngine.run_backtest (backtest/engine.py) ----
    historical_data,        \* the candle sets run_backtest is called on, one per call
    start_idx,              \* the start_idx argument of the calls
    run,                    \* which call is in progress (index into historical_data)
    btPc,                   \* "idle" | "call" | "loop" | "simulated" | "summarised" |
                            \* "stored" | "returned"
    cur_idx,                \* idx, the loop variable of the bar loop
    end_idx,                \* the end_idx argument (None = not given), then its value
    raising,                \* the bars at which the computations of the loop body raise
    db_manager,             \* self.db_manager is set
    db_rows,                \* what _store_results_in_db has saved, one entry per call
    execPc,                 \* per execution sharing one engine: where it is in run_backtest
    execLocals,             \* per execution: its historical_data and detected_opportunities
    execReturned,           \* per execution: the dict it returned (NoneRec before)
    last_rankings,          \* local previous_rankings (NoneRec or a rankings dict)
    bar_opportunities,      \* local detected_opportunities, in insertion order
    results,                \* self.results
    summary,                \* self.summary
    returned,               \* the dict the last call returned
    bar_log,                \* per call: bar index -> what the bar's pass computed
    \* ---- WebUIWebSocketHandler (web/websocket.py) ----
    running,                \* self.running
    thread,                 \* self.thread (None or the id of an update-loop thread)
    current_timeframe,      \* self.current_timeframe
    handler_previous_rankings, \* self.previous_rankings (NoneRec or a rankings dict)
    stopping,               \* a stop() call is waiting in thread.join(timeout=5)
    threadPc,               \* per update-loop thread: "unborn" | "top" | "mid" | "sleep" | "done"
    threadLocals,           \* per thread: rankings, ranking_changes, metrics of its cycle
    cycles,                 \* number of evaluation cycles the update loops have begun
    \* ---- single calls of pure functions ----
    strengthArgs,           \* arguments of OpportunityDetector._calculate_opportunity_strength
    strengthResult,         \* its return value (None before the call)
    changesArgs,            \* arguments of calculate_ranking_changes
    changesResult,          \* its return value (NoneRec before the call)
    indicatorArgs,          \* arguments of an indicator function (data, period)
    indicatorResult,        \* the list it returns (empty before the call)
    \* ---- successive evaluations of one instrument's price metric ----
    signal_data,            \* the instrument's candles at the latest evaluation
    signal_prices           \* signal_prices[symbol] as the latest evaluation left it

rankVars  == <<metrics, rankings, rankPc, candle_data>>
tradeVars == <<symbol_data, tradeArgs, tradeResult, tradePc>>
detVars   == <<detected_opportunities, last_detection_time, ranking_history,
               opportunities, clock, detCalls, snapshot_log>>
dbVars    == <<db_manager, db_rows>>
execVars  == <<execPc, execLocals, execReturned>>
btVars    == <<historical_data, start_idx, run, btPc, cur_idx, end_idx, raising, last_rankings,
               bar_opportunities, results, summary, returned, bar_log, dbVars, execVars>>
liveVars  == <<running, thread, current_timeframe, handler_previous_rankings, stopping,
               threadPc, threadLocals, cycles>>
fnVars    == <<strengthArgs, strengthResult, changesArgs, changesResult,
               indicatorArgs, indicatorResult, signal_data, signal_prices>>
vars      == <<rankVars, tradeVars, detVars, btVars, liveVars, fnVars>>

\* Python's None (outside every numeric domain used below).
None == -999999

\* Python's None where the other values are records (TLC compares records
\* with records only).
NoneRec == [none |-> TRUE]

\* the empty dict; d @@ EmptyDict and s \o <<>> are d and s, held as evaluated
\* values rather than as expressions evaluated anew at each access
EmptyDict == <<>>

\* the instrument universe, in the order its dicts are filled
SymbolNames == <<"BTCUSDT", "ETHUSDT", "SOLUSDT", "XRPUSDT", "ADAUSDT">>

Max2(a, b) == IF a >= b THEN a ELSE b
Min2(a, b) == IF a <= b THEN a ELSE b

(***************************************************************************)
(* analysis/rankings.py                                                    *)
(***************************************************************************)

\* _safe_value putting None and a missing key below every value tried
SafeValueNoneLowest(item, key) ==
    IF key \in DOMAIN item
    THEN (IF item[key] = None THEN -1000 ELSE item[key])
    ELSE -1000

\* _safe_value: item.get(key), with None or a missing key read as 0.0
SafeValue(item, key) ==
    IF key \in DOMAIN item
    THEN (IF item[key] = None THEN 0 ELSE item[key])
    ELSE 0

\* sorted(items, key=_safe_value, reverse=not ascending): Python's sort is
\* stable in both directions, so an item goes behind every item that does
\* not have to come after it.
RECURSIVE InsertSorted(_, _, _, _)
InsertSorted(sorted, item, key, ascending) ==
    IF sorted = <<>> THEN <<item>>
    ELSE LET h == Head(sorted)
             before == IF ascending
                       THEN SafeValue(item, key) < SafeValue(h, key)
                       ELSE SafeValue(item, key) > SafeValue(h, key)
         IN  IF before THEN <<item>> \o sorted
             ELSE <<h>> \o InsertSorted(Tail(sorted), item, key, ascending)

RECURSIVE SortItems(_, _, _)
SortItems(items, key, ascending) ==
    IF items = <<>> THEN <<>>
    ELSE InsertSorted(SortItems(SubSeq(items, 1, Len(items) - 1), key, ascending),
                      items[Len(items)], key, ascending)

\* the caller's list after a sort in place (items.sort instead of sorted)
ItemsAfterSortInPlace(items, key, ascending) == SortItems(items, key, ascending)

\* the caller's list after rank_by_metric sorted it: sorted() builds a new
\* list and nothing is written to the items, so the list is as it was
ItemsAfterSort(items, key, ascending) == items

\* rank_by_metric renumbering the ranks contiguously after a tie
\* (current_rank += 1 instead of current_rank = idx + 1)
RECURSIVE RankLoopDense(_, _, _, _, _, _)
RankLoopDense(sorted_items, key, idx, current_rank, prev_value, ranks) ==
    IF idx >= Len(sorted_items) THEN ranks
    ELSE LET item  == sorted_items[idx + 1]
             value == SafeValue(item, key)
             rank  == IF idx > 0 /\ value # prev_value THEN current_rank + 1 ELSE current_rank
         IN  RankLoopDense(sorted_items, key, idx + 1, rank, value,
                           (item.symbol :> rank) @@ ranks)

\* the loop of rank_by_metric over enumerate(sorted_items); idx is 0-based
RECURSIVE RankLoop(_, _, _, _, _, _)
RankLoop(sorted_items, key, idx, current_rank, prev_value, ranks) ==
    IF idx >= Len(sorted_items) THEN ranks
    ELSE LET item  == sorted_items[idx + 1]
             value == SafeValue(item, key)
             rank  == IF idx > 0 /\ value # prev_value THEN idx + 1 ELSE current_rank
         IN  RankLoop(sorted_items, key, idx + 1, rank, value,
                      (item.symbol :> rank) @@ ranks)

RankByMetric(items, metric_key, ascending) ==
    RankLoop(SortItems(items, metric_key, ascending), metric_key, 0, 1, None, EmptyDict)

\* ranks.get(symbol, 999)
GetRank(ranks, symbol) == IF symbol \in DOMAIN ranks THEN ranks[symbol] ELSE 999

\* the record of calculate_rankings with a total that leaves the price rank out
ScoredRecordNoPrice(metric, volume_ranks, momentum_ranks, total_pct_ranks, zscore_ranks, price_ranks) ==
    LET volume_rank    == GetRank(volume_ranks, metric.symbol)
        momentum_rank  == GetRank(momentum_ranks, metric.symbol)
        total_pct_rank == GetRank(total_pct_ranks, metric.symbol)
        zscore_rank    == GetRank(zscore_ranks, metric.symbol)
        price_rank     == GetRank(price_ranks, metric.symbol)
    IN  [symbol           |-> metric.symbol,
         price            |-> metric.price,
         volume_metric    |-> metric.volume_metric,
         volume_rank      |-> volume_rank,
         momentum_metric  |-> metric.momentum_metric,
         momentum_rank    |-> momentum_rank,
         total_pct_change |-> metric.total_pct_change,
         total_pct_rank   |-> total_pct_rank,
         zscore_metric    |-> metric.zscore_metric,
         zscore_rank      |-> zscore_rank,
         price_metric     |-> metric.price_metric,
         price_rank       |-> price_rank,
         total_score      |-> volume_rank + momentum_rank + total_pct_rank + zscore_rank,
         in_uptrend       |-> metric.in_uptrend]

\* the record calculate_rankings builds for one metric record (lines 39-68)
ScoredRecord(metric, volume_ranks, momentum_ranks, total_pct_ranks, zscore_ranks, price_ranks) ==
    LET volume_rank    == GetRank(volume_ranks, metric.symbol)
        momentum_rank  == GetRank(momentum_ranks, metric.symbol)
        total_pct_rank == GetRank(total_pct_ranks, metric.symbol)
        zscore_rank    == GetRank(zscore_ranks, metric.symbol)
        price_rank     == GetRank(price_ranks, metric.symbol)
    IN  [symbol           |-> metric.symbol,
         price            |-> metric.price,
         volume_metric    |-> metric.volume_metric,
         volume_rank      |-> volume_rank,
         momentum_metric  |-> metric.momentum_metric,
         momentum_rank    |-> momentum_rank,
         total_pct_change |-> metric.total_pct_change,
         total_pct_rank   |-> total_pct_rank,
         zscore_metric    |-> metric.zscore_metric,
         zscore_rank      |-> zscore_rank,
         price_metric     |-> metric.price_metric,
         price_rank       |-> price_rank,
         total_score      |-> volume_rank + momentum_rank + total_pct_rank
                              + zscore_rank + price_rank,
         in_uptrend       |-> metric.in_uptrend]

\* calculate_rankings(metrics); metrics_list is list(metrics.values())
CalculateRankings(metrics_list) ==
    IF metrics_list = <<>> THEN EmptyDict
    ELSE
    LET volume_ranks    == RankByMetric(metrics_list, "volume_metric", FALSE)
        momentum_ranks  == RankByMetric(metrics_list, "momentum_metric", FALSE)
        total_pct_ranks == RankByMetric(metrics_list, "total_pct_change", FALSE)
        zscore_ranks    == RankByMetric(metrics_list, "zscore_metric", FALSE)
        price_ranks     == RankByMetric(metrics_list, "price_metric", FALSE)
        scored == [i \in 1..Len(metrics_list) |->
                      ScoredRecord(metrics_list[i], volume_ranks, momentum_ranks,
                                   total_pct_ranks, zscore_ranks, price_ranks)] \o <<>>
        overall_ranks == RankByMetric(scored, "total_score", TRUE)
        symbols == {metrics_list[i].symbol : i \in 1..Len(metrics_list)}
    IN  [s \in symbols |->
            LET i == CHOOSE j \in 1..Len(scored) : scored[j].symbol = s
            IN  [symbol |-> s, overall_rank |-> GetRank(overall_ranks, s)] @@ scored[i]]
        @@ EmptyDict

(***************************************************************************)
(* backtest/engine.py: _simulate_single_trade                              *)
(***************************************************************************)

\* BACKTEST_CONFIG defaults, in tenths of a percent / in bars
TAKE_PROFIT == 30
STOP_LOSS == 15
MAX_BARS == 20

\* the slice starting at the entry bar: symbol_data[entry_bar_idx : entry_bar_idx + max_bars]
FutureBarsFromEntry(data, entry_bar_idx, max_bars) ==
    SubSeq(data, entry_bar_idx + 1, Min2(Len(data), entry_bar_idx + max_bars))

\* symbol_data[entry_bar_idx + 1 : entry_bar_idx + max_bars + 1]
\* (0-based Python slice of a 1-based sequence; max_bars >= 1)
FutureBars(data, entry_bar_idx, max_bars) ==
    SubSeq(data, entry_bar_idx + 2, Min2(Len(data), entry_bar_idx + max_bars + 1))

\* the pnl of a short computed with the long formula
PnlPctLongOnly(direction, current_price, entry_price) ==
    [num |-> (current_price - entry_price) * 100, den |-> entry_price]

\* ((current_price - entry_price) / entry_price) * 100 for a long,
\* ((entry_price - current_price) / entry_price) * 100 for a short,
\* kept as the exact fraction num/den
PnlPct(direction, current_price, entry_price) ==
    IF direction = "long"
    THEN [num |-> (current_price - entry_price) * 100, den |-> entry_price]
    ELSE [num |-> (entry_price - current_price) * 100, den |-> entry_price]

\* pnl_pct >= take_profit   (take_profit in tenths of a percent)
HitsTakeProfit(pnl_pct, take_profit) == pnl_pct.num * 10 >= take_profit * pnl_pct.den

\* the stop-loss test without the minus sign: pnl_pct <= stop_loss
HitsStopLossNoSign(pnl_pct, stop_loss) == pnl_pct.num * 10 <= stop_loss * pnl_pct.den

\* pnl_pct <= -stop_loss    (stop_loss in tenths of a percent)
HitsStopLoss(pnl_pct, stop_loss) == pnl_pct.num * 10 <= (0 - stop_loss) * pnl_pct.den

\* the exit scan without its break statements: the last bar that triggers wins
RECURSIVE ExitScanNoBreak(_, _, _, _, _, _)
ExitScanNoBreak(future_bars, i, direction, entry_price, take_profit, stop_loss) ==
    IF i >= Len(future_bars) THEN NoneRec
    ELSE LET bar     == future_bars[i + 1]
             pnl_pct == PnlPct(direction, bar.close, entry_price)
             here    == IF HitsTakeProfit(pnl_pct, take_profit)
                        THEN [exit_bar |-> bar, exit_reason |-> "take_profit", bars_held |-> i + 1]
                        ELSE IF HitsStopLoss(pnl_pct, stop_loss)
                        THEN [exit_bar |-> bar, exit_reason |-> "stop_loss", bars_held |-> i + 1]
                        ELSE IF i = Len(future_bars) - 1
                        THEN [exit_bar |-> bar, exit_reason |-> "max_duration", bars_held |-> i + 1]
                        ELSE NoneRec
             later   == ExitScanNoBreak(future_bars, i + 1, direction, entry_price,
                                        take_profit, stop_loss)
         IN  IF later # NoneRec THEN later ELSE here

\* the exit the for-loop of lines 437-469 leaves behind, scanning future_bars
\* from 0-based position i; NoneRec (None) if the loop ends without setting exit_bar
RECURSIVE ExitScan(_, _, _, _, _, _)
ExitScan(future_bars, i, direction, entry_price, take_profit, stop_loss) ==
    IF i >= Len(future_bars) THEN NoneRec
    ELSE LET bar     == future_bars[i + 1]
             pnl_pct == PnlPct(direction, bar.close, entry_price)
         IN  IF HitsTakeProfit(pnl_pct, take_profit)
             THEN [exit_bar |-> bar, exit_reason |-> "take_profit", bars_held |-> i + 1]
             ELSE IF HitsStopLoss(pnl_pct, stop_loss)
             THEN [exit_bar |-> bar, exit_reason |-> "stop_loss", bars_held |-> i + 1]
             ELSE IF i = Len(future_bars) - 1
             THEN [exit_bar |-> bar, exit_reason |-> "max_duration", bars_held |-> i + 1]
             ELSE ExitScan(future_bars, i + 1, direction, entry_price, take_profit, stop_loss)

SimulateSingleTrade(data, symbol, direction, entry_bar_idx, entry_price, entry_time, take_profit, stop_loss, max_bars) ==
    LET future_bars == FutureBars(data, entry_bar_idx, max_bars)
    IN  IF future_bars = <<>> THEN NoneRec
        ELSE LET exit == ExitScan(future_bars, 0, direction, entry_price,
                                  take_profit, stop_loss)
             IN  IF exit = NoneRec THEN NoneRec
                 ELSE [symbol     |-> symbol,
                       direction  |-> direction,
                       entryPrice |-> entry_price,
                       entryTime  |-> entry_time,
                       exitPrice  |-> exit.exit_bar.close,
                       exitTime   |-> exit.exit_bar.timestamp,
                       exitReason |-> exit.exit_reason,
                       pnl        |-> PnlPct(direction, exit.exit_bar.close, entry_price),
                       bars_held  |-> exit.bars_held]

(***************************************************************************)
(* analysis/opportunities.py: OpportunityDetector                          *)
(***************************************************************************)

\* literals of opportunities.py
HISTORY_LIMIT_ENTRIES == 10      \* len(self.ranking_history) > 10
RESET_SECONDS == 3600            \* total_seconds() > 3600
WINDOW_SECONDS == 180            \* 3 * 60
TOP_RANK == 20                   \* top 20
BAND_RANK == 40                  \* top 40
MOVEMENT_THRESHOLD == 50         \* total rank improvement / degradation > 50

\* OPPORTUNITY_THRESHOLD (config.py), volume/momentum/zscore/price in hundredths
THRESHOLD_VOLUME == 200
THRESHOLD_MOMENTUM == 80
THRESHOLD_ZSCORE == 150
THRESHOLD_RANK_CHANGE == 3
THRESHOLD_PRICE == 150

RankKeys == <<"volume_rank", "momentum_rank", "total_pct_rank", "zscore_rank", "price_rank">>

\* keys of a dict in iteration order; dicts are filled in the order of the
\* instrument universe
DictOrder(d) == SelectSeq(SymbolNames, LAMBDA s : s \in DOMAIN d)

\* d.get(symbol, {}).get(key, default)
GetField(d, symbol, key, default) ==
    IF symbol \in DOMAIN d
    THEN (IF key \in DOMAIN d[symbol] THEN d[symbol][key] ELSE default)
    ELSE default

\* add_ranking_history dropping the newest entry beyond 10 (pop() for pop(0))
AddRankingHistoryPopLast(history, new_rankings, timestamp) ==
    LET appended == Append(history, [timestamp |-> timestamp, rankings |-> new_rankings])
    IN  IF Len(appended) > HISTORY_LIMIT_ENTRIES
        THEN SubSeq(appended, 1, Len(appended) - 1) ELSE appended

\* add_ranking_history: append, then drop the oldest entry beyond 10
AddRankingHistory(history, new_rankings, timestamp) ==
    LET appended == Append(history, [timestamp |-> timestamp, rankings |-> new_rankings])
    IN  IF Len(appended) > HISTORY_LIMIT_ENTRIES THEN Tail(appended) ELSE appended

\* the reset test with >= instead of >
ResetDueAtLeast(last, current_time) ==
    last = None \/ current_time - last >= RESET_SECONDS

\* the condition of reset_detection_state at clock reading current_time
ResetDue(last, current_time) ==
    last = None \/ current_time - last > RESET_SECONDS

\* sum over the five per-metric ranks of (prev - curr)
RECURSIVE RankImprovement(_, _, _, _)
RankImprovement(prev_rankings, current_rankings, symbol, k) ==
    IF k > Len(RankKeys) THEN 0
    ELSE (GetField(prev_rankings, symbol, RankKeys[k], 0)
          - GetField(current_rankings, symbol, RankKeys[k], 0))
         + RankImprovement(prev_rankings, current_rankings, symbol, k + 1)

\* the band test without its upper end
InBandNoUpper(rank) == rank > TOP_RANK

\* previous rank between 21 and 40
InBand(rank) == rank > TOP_RANK /\ rank <= BAND_RANK

\* the top-20 test with < instead of <=
InTopStrict(rank) == rank < TOP_RANK

\* previous rank in the top 20
InTop(rank) == rank <= TOP_RANK

\* the long scan going on to older entries when the nearest match fails the sum
RECURSIVE ScanLongAnyMatch(_, _, _)
ScanLongAnyMatch(history, symbol, i) ==
    IF i < 1 THEN FALSE
    ELSE LET current   == history[Len(history)]
             entry     == history[i]
             time_diff == current.timestamp - entry.timestamp
         IN  IF /\ time_diff <= WINDOW_SECONDS
                /\ InBand(GetField(entry.rankings, symbol, "overall_rank", 999))
                /\ RankImprovement(entry.rankings, current.rankings, symbol, 1)
                      > MOVEMENT_THRESHOLD
             THEN TRUE
             ELSE ScanLongAnyMatch(history, symbol, i - 1)

\* the loop of _check_ranking_movement_for_long from 1-based history position i
\* downwards; the first in-window entry with the rank in the band decides
RECURSIVE ScanLong(_, _, _)
ScanLong(history, symbol, i) ==
    IF i < 1 THEN FALSE
    ELSE LET current   == history[Len(history)]
             entry     == history[i]
             time_diff == current.timestamp - entry.timestamp
         IN  IF /\ time_diff <= WINDOW_SECONDS
                /\ InBand(GetField(entry.rankings, symbol, "overall_rank", 999))
             THEN RankImprovement(entry.rankings, current.rankings, symbol, 1)
                     > MOVEMENT_THRESHOLD
             ELSE ScanLong(history, symbol, i - 1)

CheckRankingMovementForLong(history, symbol) ==
    IF Len(history) < 2 THEN FALSE
    ELSE IF GetField(history[Len(history)].rankings, symbol, "overall_rank", 999) > TOP_RANK
    THEN FALSE
    ELSE ScanLong(history, symbol, Len(history) - 1)

\* the loop of _check_ranking_movement_for_short
RECURSIVE ScanShort(_, _, _)
ScanShort(history, symbol, i) ==
    IF i < 1 THEN FALSE
    ELSE LET current   == history[Len(history)]
             entry     == history[i]
             time_diff == current.timestamp - entry.timestamp
         IN  IF /\ time_diff <= WINDOW_SECONDS
                /\ InTop(GetField(entry.rankings, symbol, "overall_rank", 999))
             THEN RankImprovement(current.rankings, entry.rankings, symbol, 1)
                     > MOVEMENT_THRESHOLD
             ELSE ScanShort(history, symbol, i - 1)

CheckRankingMovementForShort(history, symbol) ==
    IF Len(history) < 2 THEN FALSE
    ELSE LET current_overall_rank ==
                 GetField(history[Len(history)].rankings, symbol, "overall_rank", 999)
         IN  IF current_overall_rank <= TOP_RANK \/ current_overall_rank > BAND_RANK
             THEN FALSE
             ELSE ScanShort(history, symbol, Len(history) - 1)

\* the long test without the dedup check
IsLongOpportunityNoDedup(detected, history, symbol) ==
    CheckRankingMovementForLong(history, symbol)

IsLongOpportunity(detected, history, symbol) ==
    IF symbol \in detected.long THEN FALSE
    ELSE CheckRankingMovementForLong(history, symbol)

IsShortOpportunity(detected, history, symbol) ==
    IF symbol \in detected.short THEN FALSE
    ELSE CheckRankingMovementForShort(history, symbol)

\* min(value / threshold * points, cap) in thousandths of a point, for a value
\* and a threshold in the same unit and points, cap in tenths of a point
ScaledScore(value, threshold, points, cap) ==
    Min2((value * points * 100) \div threshold, cap * 100)

\* _calculate_opportunity_strength, in thousandths of a point
OpportunityStrength(ranking, changes, metric, direction) ==
    LET volume_metric   == IF "volume_metric" \in DOMAIN metric THEN metric.volume_metric ELSE 0
        momentum_metric == IF "momentum_metric" \in DOMAIN metric THEN metric.momentum_metric ELSE 0
        price_metric    == IF "price_metric" \in DOMAIN metric THEN metric.price_metric ELSE 0
        zscore          == IF "zscore_metric" \in DOMAIN metric THEN metric.zscore_metric ELSE 0
        rank_change     == IF "overall_rank_change" \in DOMAIN changes
                           THEN changes.overall_rank_change ELSE 0
        volume_score ==
            IF direction = "long"
            THEN ScaledScore(volume_metric, THRESHOLD_VOLUME, 75, 150)
            ELSE \* inverse_ratio = 1.0 / max(volume_metric, 0.01)
                 Min2((10000 * 75 * 100) \div (Max2(volume_metric, 1) * THRESHOLD_VOLUME),
                      150 * 100)
        momentum_abs   == IF momentum_metric < 0 THEN 0 - momentum_metric ELSE momentum_metric
        momentum_score ==
            IF (direction = "long" /\ momentum_metric > 0)
               \/ (direction = "short" /\ momentum_metric < 0)
            THEN ScaledScore(momentum_abs, THRESHOLD_MOMENTUM, 75, 150)
            ELSE 0
        price_score == ScaledScore(price_metric, THRESHOLD_PRICE, 100, 200)
        rank_change_value == IF direction = "long" THEN rank_change ELSE 0 - rank_change
        rank_score ==
            IF rank_change_value > 0
            THEN ScaledScore(rank_change_value, THRESHOLD_RANK_CHANGE, 75, 150)
            ELSE 0
        zscore_value == IF direction = "long" THEN zscore ELSE 0 - zscore
        zscore_score ==
            IF zscore_value > 0
            THEN ScaledScore(zscore_value, THRESHOLD_ZSCORE, 75, 150)
            ELSE 0
        trend_score ==
            IF "in_uptrend" \in DOMAIN ranking
            THEN (IF (direction = "long" /\ ranking.in_uptrend)
                     \/ (direction = "short" /\ ~ranking.in_uptrend)
                  THEN 20000 ELSE 0)
            ELSE 0
        score == 50000 + volume_score + momentum_score + price_score
                 + rank_score + zscore_score + trend_score
    IN  Min2(score, 100000)

\* the dict appended to current_long / current_short
OpportunityRecord(symbol, ranking, changes, metric, direction) ==
    [symbol               |-> symbol,
     current_price        |-> IF "price" \in DOMAIN metric THEN metric.price ELSE 0,
     volume_metric        |-> IF "volume_metric" \in DOMAIN metric THEN metric.volume_metric ELSE 0,
     momentum_metric      |-> IF "momentum_metric" \in DOMAIN metric THEN metric.momentum_metric ELSE 0,
     zscore_metric        |-> IF "zscore_metric" \in DOMAIN metric THEN metric.zscore_metric ELSE 0,
     price_metric         |-> IF "price_metric" \in DOMAIN metric THEN metric.price_metric ELSE 0,
     overall_rank         |-> IF "overall_rank" \in DOMAIN ranking THEN ranking.overall_rank ELSE 999,
     rank_change          |-> IF "overall_rank_change" \in DOMAIN changes
                              THEN changes.overall_rank_change ELSE 0,
     opportunity_strength |-> OpportunityStrength(ranking, changes, metric, direction)]

\* list.sort(key=opportunity_strength, reverse=True): stable, descending
RECURSIVE SortByStrength(_)
SortByStrength(opps) ==
    IF opps = <<>> THEN <<>>
    ELSE LET rest == SortByStrength(SubSeq(opps, 1, Len(opps) - 1))
             last == opps[Len(opps)]
             keep == SelectSeq(rest, LAMBDA o : o.opportunity_strength >= last.opportunity_strength)
             drop == SelectSeq(rest, LAMBDA o : o.opportunity_strength < last.opportunity_strength)
         IN  keep \o <<last>> \o drop

\* the for-loop of detect_opportunities (lines 96-141) over order[k..], carrying
\* the dedup sets and the two result lists
RECURSIVE DetectLoop(_, _, _, _, _, _, _)
DetectLoop(order, k, new_rankings, ranking_changes, new_metrics, history, acc) ==
    IF k > Len(order) THEN acc
    ELSE LET symbol  == order[k]
             ranking == new_rankings[symbol]
             changes == IF symbol \in DOMAIN ranking_changes
                        THEN ranking_changes[symbol] ELSE EmptyDict
             metric  == IF symbol \in DOMAIN new_metrics
                        THEN new_metrics[symbol] ELSE EmptyDict
             isLong  == IsLongOpportunity(acc.detected, history, symbol)
             isShort == IsShortOpportunity(acc.detected, history, symbol)
             next ==
                [detected |->
                    [long  |-> IF isLong THEN acc.detected.long \cup {symbol}
                               ELSE acc.detected.long,
                     short |-> IF isShort THEN acc.detected.short \cup {symbol}
                               ELSE acc.detected.short],
                 long  |-> IF isLong
                           THEN Append(acc.long, OpportunityRecord(symbol, ranking, changes,
                                                                   metric, "long"))
                           ELSE acc.long,
                 short |-> IF isShort
                           THEN Append(acc.short, OpportunityRecord(symbol, ranking, changes,
                                                                    metric, "short"))
                           ELSE acc.short]
         IN  DetectLoop(order, k + 1, new_rankings, ranking_changes, new_metrics, history, next)

(***************************************************************************)
(* analysis/indicators.py                                                  *)
(*                                                                         *)
(* Candles are records [high, low, close, volume, timestamp] with prices   *)
(* in tenths.  Indicator values are Python floats; they are kept as        *)
(* integers at a fixed resolution, a float division becoming an integer    *)
(* division rounded toward zero:                                           *)
(*   ATR and Supertrend bands   in 1/1000 of a price tenth                 *)
(*   RSI and Z-Score values     in hundredths                              *)
(***************************************************************************)

\* METRIC_CONFIG
VOLUME_BASELINE_PERIOD == 20
MOMENTUM_PERIOD == 14
ZSCORE_PERIOD == 20
SUPERTREND_PERIOD == 10
SUPERTREND_MULTIPLIER == 3

Abs(x) == IF x < 0 THEN 0 - x ELSE x

\* a / b for b > 0, rounded toward zero
Div(a, b) == IF a >= 0 THEN a \div b ELSE 0 - ((0 - a) \div b)

\* the largest r with r * r <= n, searched in lo..hi
RECURSIVE SqrtSearch(_, _, _)
SqrtSearch(n, lo, hi) ==
    IF lo >= hi THEN lo
    ELSE LET mid == (lo + hi + 1) \div 2
         IN  IF mid * mid <= n THEN SqrtSearch(n, mid, hi)
             ELSE SqrtSearch(n, lo, mid - 1)

\* floor of the square root of n, 0 <= n < 2^30
Sqrt(n) == SqrtSearch(n, 0, 32767)

\* sum(values[:n])
RECURSIVE SumFirst(_, _)
SumFirst(values, n) ==
    IF n <= 0 THEN 0 ELSE values[n] + SumFirst(values, n - 1)

\* tr[i] of calculate_atr (lines 30-39), for the 0-based position i
TrueRange(data, i) ==
    LET tr1 == data[i + 1].high - data[i + 1].low
        tr2 == IF i = 0 THEN 0 ELSE Abs(data[i + 1].high - data[i].close)
        tr3 == IF i = 0 THEN 0 ELSE Abs(data[i + 1].low - data[i].close)
    IN  Max2(Max2(tr1, tr2), tr3)

\* the loop of calculate_atr (lines 46-52) from the 0-based position i
RECURSIVE AtrLoop(_, _, _, _)
AtrLoop(tr, period, i, atr) ==
    IF i >= Len(tr) THEN atr
    ELSE LET value == IF i < period
                      THEN Div(SumFirst(tr, i + 1) * 1000, i + 1)
                      ELSE Div(atr[i] * (period - 1) + tr[i + 1] * 1000, period)
         IN  AtrLoop(tr, period, i + 1, Append(atr, value))

\* calculate_atr(data, period)
CalculateAtr(data, period) ==
    IF Len(data) < period THEN [i \in 1..Len(data) |-> 0]
    ELSE LET tr == [i \in 1..Len(data) |-> TrueRange(data, i - 1)]
         IN  AtrLoop(tr \o <<>>, period, 1, <<tr[1] * 1000>>)

\* the average gain and loss after the change at 0-based position i
\* (lines 97-98 and 112-113), in hundredths of a price tenth
RECURSIVE RsiAverages(_, _, _, _)
RsiAverages(gains, losses, period, i) ==
    IF i < period
    THEN [avg_gain |-> Div(SumFirst(gains, period) * 100, period),
          avg_loss |-> Div(SumFirst(losses, period) * 100, period)]
    ELSE LET prev == RsiAverages(gains, losses, period, i - 1)
         IN  [avg_gain |-> Div(prev.avg_gain * (period - 1) + gains[i + 1] * 100, period),
              avg_loss |-> Div(prev.avg_loss * (period - 1) + losses[i + 1] * 100, period)]

\* 100.0 - (100.0 / (1.0 + avg_gain / avg_loss)), in hundredths
RsiValue(avg) ==
    IF avg.avg_loss = 0 THEN 10000
    ELSE Div(10000 * avg.avg_gain, avg.avg_gain + avg.avg_loss)

\* calculate_rsi(data, period): one leading None, then the RSI of the changes
\* period-1 .. len(changes)-1 in order, then None up to len(data)
CalculateRsi(data, period) ==
    IF Len(data) <= period THEN [i \in 1..Len(data) |-> None]
    ELSE LET changes == [i \in 1..(Len(data) - 1) |-> data[i + 1].close - data[i].close]
             gains   == [i \in 1..Len(changes) |-> IF changes[i] > 0 THEN changes[i] ELSE 0]
             losses  == [i \in 1..Len(changes) |-> IF changes[i] < 0 THEN 0 - changes[i] ELSE 0]
             count   == Len(changes) - period + 1
         IN  [k \in 1..Len(data) |->
                 IF k = 1 THEN None
                 ELSE IF k - 1 <= count
                 THEN RsiValue(RsiAverages(gains, losses, period, period + k - 3))
                 ELSE None]

\* one value of calculate_zscore (lines 248-258) for the window ending at the
\* 0-based position i: (prices[i] - mean) / std with the population deviation
ZscoreAt(data, period, i) ==
    LET window == [k \in 1..period |-> data[i - period + 1 + k].close]
        total  == SumFirst(window, period)
        square == SumFirst([k \in 1..period |-> window[k] * window[k]], period)
        spread == period * square - total * total
    IN  IF spread > 0
        THEN Div(1000 * (period * data[i + 1].close - total), Sqrt(100 * spread))
        ELSE 0

\* calculate_zscore(data, period)
CalculateZscore(data, period) ==
    IF Len(data) < period THEN [i \in 1..Len(data) |-> None]
    ELSE [k \in 1..Len(data) |->
             IF k - 1 < period - 1 THEN None ELSE ZscoreAt(data, period, k - 1)]

\* the placeholder entry of calculate_supertrend for the first period bars
SupertrendPlaceholder ==
    [upperband |-> None, lowerband |-> None, in_uptrend |-> TRUE,
     signal_change |-> FALSE, buy_signal |-> FALSE, sell_signal |-> FALSE]

\* calculate_supertrend taking every bar of a downtrend for a change
SupertrendEntryDownIsChange(data, atr, period, multiplier, i, prev) ==
    LET high  == data[i + 1].high
        low   == data[i + 1].low
        close == data[i + 1].close * 1000
        basic_upperband == (high + low) * 500 + multiplier * atr[i + 1]
        basic_lowerband == (high + low) * 500 - multiplier * atr[i + 1]
    IN  IF i = period
        THEN [upperband |-> basic_upperband, lowerband |-> basic_lowerband,
              in_uptrend |-> TRUE, signal_change |-> FALSE,
              buy_signal |-> FALSE, sell_signal |-> FALSE]
        ELSE LET upperband  == IF prev.in_uptrend THEN basic_upperband
                               ELSE Min2(basic_upperband, prev.upperband)
                 lowerband  == IF prev.in_uptrend THEN Max2(basic_lowerband, prev.lowerband)
                               ELSE basic_lowerband
                 in_uptrend == IF prev.in_uptrend THEN close >= lowerband
                               ELSE close >= upperband
                 signal_change == ~in_uptrend
             IN  [upperband |-> upperband, lowerband |-> lowerband,
                  in_uptrend |-> in_uptrend, signal_change |-> signal_change,
                  buy_signal |-> in_uptrend /\ signal_change,
                  sell_signal |-> ~in_uptrend /\ signal_change]

\* the entry calculate_supertrend appends for the 0-based position i >= period
SupertrendEntry(data, atr, period, multiplier, i, prev) ==
    LET high  == data[i + 1].high
        low   == data[i + 1].low
        close == data[i + 1].close * 1000
        basic_upperband == (high + low) * 500 + multiplier * atr[i + 1]
        basic_lowerband == (high + low) * 500 - multiplier * atr[i + 1]
    IN  IF i = period
        THEN [upperband |-> basic_upperband, lowerband |-> basic_lowerband,
              in_uptrend |-> TRUE, signal_change |-> FALSE,
              buy_signal |-> FALSE, sell_signal |-> FALSE]
        ELSE LET upperband  == IF prev.in_uptrend THEN basic_upperband
                               ELSE Min2(basic_upperband, prev.upperband)
                 lowerband  == IF prev.in_uptrend THEN Max2(basic_lowerband, prev.lowerband)
                               ELSE basic_lowerband
                 in_uptrend == IF prev.in_uptrend THEN close >= lowerband
                               ELSE close >= upperband
                 signal_change == in_uptrend # prev.in_uptrend
             IN  [upperband |-> upperband, lowerband |-> lowerband,
                  in_uptrend |-> in_uptrend, signal_change |-> signal_change,
                  buy_signal |-> in_uptrend /\ signal_change,
                  sell_signal |-> ~in_uptrend /\ signal_change]

\* the loop of calculate_supertrend (lines 155-218) from the 0-based position i
RECURSIVE SupertrendLoop(_, _, _, _, _, _)
SupertrendLoop(data, atr, period, multiplier, i, supertrend) ==
    IF i >= Len(data) THEN supertrend
    ELSE LET entry == IF i < period THEN SupertrendPlaceholder
                      ELSE SupertrendEntry(data, atr, period, multiplier, i, supertrend[i])
         IN  SupertrendLoop(data, atr, period, multiplier, i + 1, Append(supertrend, entry))

\* calculate_supertrend(data, period, multiplier)
CalculateSupertrend(data, period, multiplier) ==
    IF Len(data) < period
    THEN [i \in 1..Len(data) |->
             [upperband |-> None, lowerband |-> None, in_uptrend |-> None,
              signal_change |-> FALSE]]
    ELSE SupertrendLoop(data, CalculateAtr(data, period), period, multiplier, 0, <<>>)

(***************************************************************************)
(* analysis/metrics.py                                                     *)
(*                                                                         *)
(* Every metric value is kept in hundredths (a ratio of 2.0 is 200, a      *)
(* change of 1.5 percent is 150).                                          *)
(***************************************************************************)

\* the two accumulators of calculate_volume_metric (lines 39-55) over data[:n],
\* in hundredths of a volume unit
RECURSIVE VolumeSums(_, _)
VolumeSums(data, n) ==
    IF n = 0 THEN [buy |-> 0, sell |-> 0]
    ELSE LET rest   == VolumeSums(data, n - 1)
             candle == data[n]
         IN  IF candle.high = candle.low THEN rest
             ELSE [buy  |-> rest.buy + Div(candle.volume * (candle.close - candle.low) * 100,
                                           candle.high - candle.low),
                   sell |-> rest.sell + Div(candle.volume * (candle.high - candle.close) * 100,
                                            candle.high - candle.low)]

\* calculate_volume_metric(data)
CalculateVolumeMetric(data) ==
    IF Len(data) < VOLUME_BASELINE_PERIOD THEN 0
    ELSE LET sums == VolumeSums(data, Len(data))
         IN  IF sums.sell > 0 THEN Div(sums.buy * 100, sums.sell) ELSE 100

\* calculate_total_pct_change(data); the two prices are (high + low) / 2
CalculateTotalPctChange(data) ==
    IF Len(data) < 2 THEN 0
    ELSE LET start_price   == data[1].high + data[1].low
             current_price == data[Len(data)].high + data[Len(data)].low
         IN  IF start_price = 0 THEN 0
             ELSE Div((current_price - start_price) * 10000, start_price)

\* np.tanh(x) for x in hundredths, in hundredths: the odd, increasing rational
\* approximation x (27 + x^2) / (27 + 9 x^2), which reaches 1 at |x| = 3
Tanh(x) ==
    IF x >= 300 THEN 100
    ELSE IF x <= -300 THEN -100
    ELSE Div(x * (270000 + x * x), 270000 + 9 * x * x)

\* calculate_momentum_metric(data)
CalculateMomentumMetric(data) ==
    IF Len(data) < MOMENTUM_PERIOD THEN 0
    ELSE LET rsi_values == CalculateRsi(data, MOMENTUM_PERIOD)
             valid_rsi  == SelectSeq(rsi_values, LAMBDA v : v # None)
         IN  IF Len(valid_rsi) < 2 THEN 0
             ELSE LET latest_rsi   == valid_rsi[Len(valid_rsi)]
                      previous_rsi == valid_rsi[Len(valid_rsi) - 1]
                      momentum_pct_change ==
                          IF previous_rsi # 0
                          THEN Div((latest_rsi - previous_rsi) * 10000, previous_rsi)
                          ELSE 0
                  IN  Tanh(Div(momentum_pct_change, 10))

\* calculate_zscore_metric(data)
CalculateZscoreMetric(data) ==
    IF Len(data) < ZSCORE_PERIOD THEN 0
    ELSE LET valid_zscores == SelectSeq(CalculateZscore(data, ZSCORE_PERIOD),
                                        LAMBDA z : z # None)
         IN  IF valid_zscores = <<>> THEN 0 ELSE valid_zscores[Len(valid_zscores)]

\* the 0-based position of the latest entry of supertrend with the flag key
\* set, scanning down from position i; None if there is none (lines 193-199)
RECURSIVE LatestSignal(_, _, _)
LatestSignal(supertrend, key, i) ==
    IF i < 0 THEN None
    ELSE IF key \in DOMAIN supertrend[i + 1] /\ supertrend[i + 1][key] THEN i
    ELSE LatestSignal(supertrend, key, i - 1)

\* the signal_prices entry calculate_all_metrics creates for a symbol
\* (lines 300-305); in_uptrend holds the default of .get('in_uptrend', True)
NewSymbolInfo ==
    [long_pullback_level |-> None, short_pullback_level |-> None,
     signal_type |-> "none", signal_bar_idx |-> None, in_uptrend |-> TRUE]

\* which of the two latest signals is the more recent one (lines 201-217)
SignalType(latest_buy_signal_idx, latest_sell_signal_idx) ==
    IF latest_buy_signal_idx # None /\ latest_sell_signal_idx # None
    THEN (IF latest_buy_signal_idx > latest_sell_signal_idx THEN "buy" ELSE "sell")
    ELSE IF latest_buy_signal_idx # None THEN "buy"
    ELSE IF latest_sell_signal_idx # None THEN "sell"
    ELSE "none"

\* latest_signal: the position of that signal, None if there is no signal
LatestOf(signal_type, latest_buy_signal_idx, latest_sell_signal_idx) ==
    IF signal_type = "buy" THEN latest_buy_signal_idx
    ELSE IF signal_type = "sell" THEN latest_sell_signal_idx
    ELSE None

\* the update of symbol_info for a signal not yet stored (lines 232-243)
UpdateSignal(symbol_info, signal_type, latest_signal, signal_bar) ==
    IF symbol_info.signal_bar_idx # latest_signal
    THEN [symbol_info EXCEPT
             !.long_pullback_level  = IF signal_type = "buy" THEN signal_bar.low ELSE @,
             !.short_pullback_level = IF signal_type = "buy" THEN @ ELSE signal_bar.high,
             !.signal_type          = signal_type,
             !.signal_bar_idx       = latest_signal]
    ELSE symbol_info

\* diff_percent (lines 257-264) from the stored signal and the current price
DiffPercent(symbol_info, current_price) ==
    IF symbol_info.signal_type = "buy"
    THEN (IF symbol_info.long_pullback_level # None /\ symbol_info.long_pullback_level > 0
          THEN Div((current_price - symbol_info.long_pullback_level) * 10000,
                   symbol_info.long_pullback_level)
          ELSE 0)
    ELSE (IF symbol_info.short_pullback_level # None /\ symbol_info.short_pullback_level > 0
          THEN Div((symbol_info.short_pullback_level - current_price) * 10000,
                   symbol_info.short_pullback_level)
          ELSE 0)

\* what calculate_price_metric returns and leaves in symbol_info, once the
\* stored signal is up to date (lines 245-266)
PriceMetricResult(symbol_info, current_price, in_uptrend) ==
    [value       |-> DiffPercent(symbol_info, current_price),
     symbol_info |-> [symbol_info EXCEPT !.in_uptrend = in_uptrend]]

\* calculate_price_metric taking the levels from the current bar
PriceMetricOfSignalCurrentBar(data, symbol_info, signal_type, latest_signal, in_uptrend) ==
    IF latest_signal = None \/ latest_signal >= Len(data)
    THEN [value |-> 0, symbol_info |-> [symbol_info EXCEPT !.in_uptrend = in_uptrend]]
    ELSE PriceMetricResult(UpdateSignal(symbol_info, signal_type, latest_signal,
                                        data[Len(data)]),
                           data[Len(data)].close, in_uptrend)

\* calculate_price_metric from the latest signal on (lines 219-266)
PriceMetricOfSignal(data, symbol_info, signal_type, latest_signal, in_uptrend) ==
    IF latest_signal = None \/ latest_signal >= Len(data)
    THEN [value |-> 0, symbol_info |-> [symbol_info EXCEPT !.in_uptrend = in_uptrend]]
    ELSE PriceMetricResult(UpdateSignal(symbol_info, signal_type, latest_signal,
                                        data[latest_signal + 1]),
                           data[Len(data)].close, in_uptrend)

\* calculate_price_metric from the two latest signal positions on (lines 201-266)
PriceMetricOfSignals(data, symbol_info, supertrend, latest_buy_signal_idx, latest_sell_signal_idx) ==
    PriceMetricOfSignal(data, symbol_info,
                        SignalType(latest_buy_signal_idx, latest_sell_signal_idx),
                        LatestOf(SignalType(latest_buy_signal_idx, latest_sell_signal_idx),
                                 latest_buy_signal_idx, latest_sell_signal_idx),
                        IF supertrend # <<>> THEN supertrend[Len(supertrend)].in_uptrend
                        ELSE TRUE)

\* calculate_price_metric from the Supertrend list on (lines 189-266)
PriceMetricOfSupertrend(data, symbol_info, supertrend) ==
    PriceMetricOfSignals(data, symbol_info, supertrend,
                         LatestSignal(supertrend, "buy_signal", Len(supertrend) - 1),
                         LatestSignal(supertrend, "sell_signal", Len(supertrend) - 1))

\* calculate_price_metric(data, symbol_info): the returned value and the
\* symbol_info it leaves behind
CalculatePriceMetric(data, symbol_info) ==
    PriceMetricOfSupertrend(data, symbol_info,
                            CalculateSupertrend(data, SUPERTREND_PERIOD, SUPERTREND_MULTIPLIER))

\* min_required_data of calculate_all_metrics (lines 287-292)
MinRequiredData ==
    Max2(Max2(VOLUME_BASELINE_PERIOD, MOMENTUM_PERIOD), Max2(ZSCORE_PERIOD, SUPERTREND_PERIOD))

\* the record calculate_all_metrics stores for one symbol (lines 318-327);
\* price is what calculate_price_metric returned and left in signal_prices
MetricsRecord(symbol, data, price) ==
    [symbol           |-> symbol,
     volume_metric    |-> CalculateVolumeMetric(data),
     momentum_metric  |-> CalculateMomentumMetric(data),
     total_pct_change |-> CalculateTotalPctChange(data),
     zscore_metric    |-> CalculateZscoreMetric(data),
     price_metric     |-> price.value,
     price            |-> data[Len(data)].close,
     in_uptrend       |-> price.symbol_info.in_uptrend]

\* one pass of the loop of calculate_all_metrics (lines 298-327)
SymbolMetrics(symbol, data) ==
    MetricsRecord(symbol, data, CalculatePriceMetric(data, NewSymbolInfo))

\* calculate_all_metrics asking for one candle less
CalculateAllMetricsOneShort(data_by_symbol) ==
    [symbol \in {s \in DOMAIN data_by_symbol : Len(data_by_symbol[s]) >= MinRequiredData - 1} |->
        SymbolMetrics(symbol, data_by_symbol[symbol])] @@ EmptyDict

\* calculate_all_metrics(historical_data)
CalculateAllMetrics(data_by_symbol) ==
    [symbol \in {s \in DOMAIN data_by_symbol : Len(data_by_symbol[s]) >= MinRequiredData} |->
        SymbolMetrics(symbol, data_by_symbol[symbol])] @@ EmptyDict

(***************************************************************************)
(* analysis/rankings.py: calculate_ranking_changes                         *)
(***************************************************************************)

\* the all-zero record of a symbol without a previous ranking
ZeroChanges(symbol) ==
    [symbol |-> symbol, volume_rank_change |-> 0, momentum_rank_change |-> 0,
     total_pct_rank_change |-> 0, zscore_rank_change |-> 0,
     price_rank_change |-> 0, overall_rank_change |-> 0]

\* calculate_ranking_changes taking the overall change as current - previous
CalculateRankingChangesReversed(current_rankings, previous_rankings) ==
    IF "none" \in DOMAIN previous_rankings \/ DOMAIN previous_rankings = {}
       \/ DOMAIN current_rankings = {}
    THEN [symbol \in DOMAIN current_rankings |-> ZeroChanges(symbol)] @@ EmptyDict
    ELSE EmptyDict @@ [symbol \in DOMAIN current_rankings |->
            IF symbol \in DOMAIN previous_rankings
            THEN LET current  == current_rankings[symbol]
                     previous == previous_rankings[symbol]
                 IN  [symbol |-> symbol,
                      volume_rank_change    |-> previous.volume_rank - current.volume_rank,
                      momentum_rank_change  |-> previous.momentum_rank - current.momentum_rank,
                      total_pct_rank_change |-> previous.total_pct_rank - current.total_pct_rank,
                      zscore_rank_change    |-> previous.zscore_rank - current.zscore_rank,
                      price_rank_change     |-> previous.price_rank - current.price_rank,
                      overall_rank_change   |-> current.overall_rank - previous.overall_rank]
            ELSE ZeroChanges(symbol)]

\* calculate_ranking_changes(current_rankings, previous_rankings); an absent
\* previous ranking is NoneRec
CalculateRankingChanges(current_rankings, previous_rankings) ==
    IF "none" \in DOMAIN previous_rankings \/ DOMAIN previous_rankings = {}
       \/ DOMAIN current_rankings = {}
    THEN [symbol \in DOMAIN current_rankings |-> ZeroChanges(symbol)] @@ EmptyDict
    ELSE EmptyDict @@ [symbol \in DOMAIN current_rankings |->
            IF symbol \in DOMAIN previous_rankings
            THEN LET current  == current_rankings[symbol]
                     previous == previous_rankings[symbol]
                 IN  [symbol |-> symbol,
                      volume_rank_change    |-> previous.volume_rank - current.volume_rank,
                      momentum_rank_change  |-> previous.momentum_rank - current.momentum_rank,
                      total_pct_rank_change |-> previous.total_pct_rank - current.total_pct_rank,
                      zscore_rank_change    |-> previous.zscore_rank - current.zscore_rank,
                      price_rank_change     |-> previous.price_rank - current.price_rank,
                      overall_rank_change   |-> previous.overall_rank - current.overall_rank]
            ELSE ZeroChanges(symbol)]

(***************************************************************************)
(* backtest/engine.py: BacktestEngine.run_backtest                         *)
(***************************************************************************)

\* BacktestEngine._calculate_opportunity_strength, in whole points
BacktestStrength(ranking, changes, metric, direction) ==
    LET overall_rank == IF "overall_rank" \in DOMAIN ranking THEN ranking.overall_rank ELSE 999
        momentum     == IF "momentum_metric" \in DOMAIN metric THEN metric.momentum_metric ELSE 0
        rank_change  == IF "overall_rank_change" \in DOMAIN changes
                        THEN changes.overall_rank_change ELSE 0
        in_uptrend   == IF "in_uptrend" \in DOMAIN ranking THEN ranking.in_uptrend ELSE TRUE
        rank_points ==
            IF direction = "long"
            THEN (IF overall_rank <= 10 THEN 20
                  ELSE IF overall_rank <= 20 THEN 10
                  ELSE IF overall_rank <= 30 THEN 5 ELSE 0)
            ELSE (IF 20 < overall_rank /\ overall_rank <= 25 THEN 20
                  ELSE IF 25 < overall_rank /\ overall_rank <= 30 THEN 15
                  ELSE IF 30 < overall_rank /\ overall_rank <= 40 THEN 10 ELSE 0)
        momentum_points ==
            IF (direction = "long" /\ momentum > 0) \/ (direction = "short" /\ momentum < 0)
            THEN (IF Abs(momentum) > 50 THEN 15
                  ELSE IF Abs(momentum) > 30 THEN 10
                  ELSE IF Abs(momentum) > 10 THEN 5 ELSE 0)
            ELSE 0
        change_points ==
            IF (direction = "long" /\ rank_change > 0) \/ (direction = "short" /\ rank_change < 0)
            THEN (IF Abs(rank_change) >= 10 THEN 15
                  ELSE IF Abs(rank_change) >= 5 THEN 10
                  ELSE IF Abs(rank_change) >= 2 THEN 5 ELSE 0)
            ELSE 0
        trend_points ==
            IF (direction = "long" /\ in_uptrend) \/ (direction = "short" /\ ~in_uptrend)
            THEN 10 ELSE 0
    IN  Min2(50 + rank_points + momentum_points + change_points + trend_points, 100)

\* the dict _detect_opportunities appends for a candidate entry
BacktestOpportunity(symbol, ranking, changes, metric, bar_idx, direction) ==
    [symbol               |-> symbol,
     bar_idx              |-> bar_idx,
     current_price        |-> IF "price" \in DOMAIN metric THEN metric.price ELSE 0,
     volume_metric        |-> IF "volume_metric" \in DOMAIN metric THEN metric.volume_metric ELSE 0,
     momentum_metric      |-> IF "momentum_metric" \in DOMAIN metric THEN metric.momentum_metric ELSE 0,
     zscore_metric        |-> IF "zscore_metric" \in DOMAIN metric THEN metric.zscore_metric ELSE 0,
     price_metric         |-> IF "price_metric" \in DOMAIN metric THEN metric.price_metric ELSE 0,
     overall_rank         |-> IF "overall_rank" \in DOMAIN ranking THEN ranking.overall_rank ELSE 999,
     rank_change          |-> IF "overall_rank_change" \in DOMAIN changes
                              THEN changes.overall_rank_change ELSE 0,
     opportunity_strength |-> BacktestStrength(ranking, changes, metric, direction)]

\* the long test without its momentum condition
BacktestIsLongAnyMomentum(ranking, changes, metric) ==
    /\ (IF "overall_rank" \in DOMAIN ranking THEN ranking.overall_rank ELSE 999) <= 20
    /\ (IF "overall_rank_change" \in DOMAIN changes THEN changes.overall_rank_change ELSE 0) > 0

\* the long test of _detect_opportunities (lines 186-188)
BacktestIsLong(ranking, changes, metric) ==
    /\ (IF "overall_rank" \in DOMAIN ranking THEN ranking.overall_rank ELSE 999) <= 20
    /\ (IF "overall_rank_change" \in DOMAIN changes THEN changes.overall_rank_change ELSE 0) > 0
    /\ (IF "momentum_metric" \in DOMAIN metric THEN metric.momentum_metric ELSE 0) > 0

\* _detect_opportunities taking every instrument of the top 40 for a short
BacktestIsShortTop40(ranking, changes, metric) ==
    (IF "overall_rank" \in DOMAIN ranking THEN ranking.overall_rank ELSE 999) <= 40

\* the short test of _detect_opportunities (lines 207-209)
BacktestIsShort(ranking, changes, metric) ==
    /\ 20 < (IF "overall_rank" \in DOMAIN ranking THEN ranking.overall_rank ELSE 999)
    /\ (IF "overall_rank" \in DOMAIN ranking THEN ranking.overall_rank ELSE 999) <= 40
    /\ (IF "overall_rank_change" \in DOMAIN changes THEN changes.overall_rank_change ELSE 0) < 0
    /\ (IF "momentum_metric" \in DOMAIN metric THEN metric.momentum_metric ELSE 0) < 0

\* the for-loop of _detect_opportunities (lines 181-225) over order[k..]
RECURSIVE BacktestDetectLoop(_, _, _, _, _, _, _)
BacktestDetectLoop(order, k, new_rankings, ranking_changes, new_metrics, bar_idx, acc) ==
    IF k > Len(order) THEN acc
    ELSE LET symbol  == order[k]
             ranking == new_rankings[symbol]
             changes == IF symbol \in DOMAIN ranking_changes
                        THEN ranking_changes[symbol] ELSE EmptyDict
             metric  == IF symbol \in DOMAIN new_metrics
                        THEN new_metrics[symbol] ELSE EmptyDict
             next ==
                [long  |-> IF BacktestIsLong(ranking, changes, metric)
                           THEN Append(acc.long, BacktestOpportunity(symbol, ranking, changes,
                                                                     metric, bar_idx, "long"))
                           ELSE acc.long,
                 short |-> IF BacktestIsShort(ranking, changes, metric)
                           THEN Append(acc.short, BacktestOpportunity(symbol, ranking, changes,
                                                                      metric, bar_idx, "short"))
                           ELSE acc.short]
         IN  BacktestDetectLoop(order, k + 1, new_rankings, ranking_changes, new_metrics,
                                bar_idx, next)

\* BacktestEngine._detect_opportunities(rankings, ranking_changes, metrics, bar_idx)
BacktestDetectOpportunities(new_rankings, ranking_changes, new_metrics, bar_idx) ==
    LET found == BacktestDetectLoop(DictOrder(new_rankings), 1, new_rankings, ranking_changes,
                                    new_metrics, bar_idx, [long |-> <<>>, short |-> <<>>])
    IN  [long |-> SortByStrength(found.long), short |-> SortByStrength(found.short)]

\* current_data with one candle beyond the current bar: data[:idx+2]
CurrentDataAhead(data_by_symbol, bar_idx) ==
    [symbol \in {s \in DOMAIN data_by_symbol : Len(data_by_symbol[s]) > bar_idx} |->
        SubSeq(data_by_symbol[symbol], 1, Min2(bar_idx + 2, Len(data_by_symbol[symbol])))]
    @@ EmptyDict

\* current_data of run_backtest (lines 99-103): data[:idx+1] of every symbol
\* that has a candle at idx
CurrentData(data_by_symbol, bar_idx) ==
    [symbol \in {s \in DOMAIN data_by_symbol : Len(data_by_symbol[s]) > bar_idx} |->
        SubSeq(data_by_symbol[symbol], 1, bar_idx + 1)]
    @@ EmptyDict

\* list(d.values()) in iteration order
DictValues(d) == [i \in 1..Len(DictOrder(d)) |-> d[DictOrder(d)[i]]] \o <<>>

\* what one pass of the bar loop has computed once the ranking changes are
\* known (lines 111-113)
BarOfChanges(new_metrics, new_rankings, ranking_changes, bar_idx) ==
    [metrics         |-> new_metrics,
     rankings        |-> new_rankings,
     ranking_changes |-> ranking_changes,
     opportunities   |-> BacktestDetectOpportunities(new_rankings, ranking_changes,
                                                     new_metrics, bar_idx)]

\* ... once the rankings are known (lines 108-113)
BarOfRankings(new_metrics, new_rankings, bar_idx, previous_rankings) ==
    BarOfChanges(new_metrics, new_rankings,
                 CalculateRankingChanges(new_rankings, previous_rankings), bar_idx)

\* ... once the metrics are known (lines 105-113)
BarOfMetrics(new_metrics, bar_idx, previous_rankings) ==
    BarOfRankings(new_metrics, CalculateRankings(DictValues(new_metrics)), bar_idx,
                  previous_rankings)

\* what one pass of the bar loop computes (lines 98-113)
BarResult(data_by_symbol, bar_idx, previous_rankings) ==
    BarOfMetrics(CalculateAllMetrics(CurrentData(data_by_symbol, bar_idx)), bar_idx,
                 previous_rankings)

\* the trades _simulate_trades appends for one direction (lines 333-360),
\* from the k-th detected opportunity on
RECURSIVE SimulateDirection(_, _, _, _, _, _, _)
SimulateDirection(data_by_symbol, detected, k, direction, take_profit, stop_loss, max_bars) ==
    IF k > Len(detected) THEN <<>>
    ELSE LET opportunity   == detected[k]
             symbol        == opportunity.symbol
             entry_bar_idx == opportunity.bar_idx
             rest == SimulateDirection(data_by_symbol, detected, k + 1, direction,
                                       take_profit, stop_loss, max_bars)
         IN  IF symbol \notin DOMAIN data_by_symbol
                \/ Len(data_by_symbol[symbol]) <= entry_bar_idx
             THEN rest
             ELSE LET entry_bar == data_by_symbol[symbol][entry_bar_idx + 1]
                      result == SimulateSingleTrade(data_by_symbol[symbol], symbol, direction,
                                                    entry_bar_idx, entry_bar.close,
                                                    entry_bar.timestamp, take_profit,
                                                    stop_loss, max_bars)
                  IN  IF result = NoneRec THEN rest ELSE <<result>> \o rest

\* a trade's pnl as a number, in hundredths of a percent
PnlValue(trade) == Div(trade.pnl.num * 100, trade.pnl.den)

RECURSIVE MaxOver(_, _)
MaxOver(values, n) == IF n = 1 THEN values[1] ELSE Max2(values[n], MaxOver(values, n - 1))

RECURSIVE MinOver(_, _)
MinOver(values, n) == IF n = 1 THEN values[1] ELSE Min2(values[n], MinOver(values, n - 1))

\* _calculate_direction_summary counting a trade without profit or loss as won
DirectionSummaryZeroWins(trades, start_time, end_time) ==
    IF trades = <<>>
    THEN [totalTrades |-> 0, winningTrades |-> 0, losingTrades |-> 0, winRate |-> 0,
          averagePnl |-> 0, totalPnl |-> 0, maxProfit |-> 0, maxLoss |-> 0,
          avgBarsHeld |-> 0, startTimestamp |-> start_time, endTimestamp |-> end_time]
    ELSE LET pnl_values     == [i \in 1..Len(trades) |-> PnlValue(trades[i])]
             winning_trades == Cardinality({i \in 1..Len(trades) : pnl_values[i] >= 0})
             losing_trades  == Cardinality({i \in 1..Len(trades) : pnl_values[i] < 0})
             bars == [i \in 1..Len(trades) |-> trades[i].bars_held]
         IN  [totalTrades    |-> Len(trades),
              winningTrades  |-> winning_trades,
              losingTrades   |-> losing_trades,
              winRate        |-> Div(winning_trades * 10000, Len(trades)),
              averagePnl     |-> Div(SumFirst(pnl_values, Len(trades)), Len(trades)),
              totalPnl       |-> SumFirst(pnl_values, Len(trades)),
              maxProfit      |-> MaxOver(pnl_values, Len(trades)),
              maxLoss        |-> MinOver(pnl_values, Len(trades)),
              avgBarsHeld    |-> Div(SumFirst(bars, Len(trades)) * 100, Len(trades)),
              startTimestamp |-> start_time,
              endTimestamp   |-> end_time]

\* _calculate_direction_summary(results, start_time, end_time); rates, pnl
\* figures and avgBarsHeld in hundredths
DirectionSummary(trades, start_time, end_time) ==
    IF trades = <<>>
    THEN [totalTrades |-> 0, winningTrades |-> 0, losingTrades |-> 0, winRate |-> 0,
          averagePnl |-> 0, totalPnl |-> 0, maxProfit |-> 0, maxLoss |-> 0,
          avgBarsHeld |-> 0, startTimestamp |-> start_time, endTimestamp |-> end_time]
    ELSE LET pnl_values     == [i \in 1..Len(trades) |-> PnlValue(trades[i])]
             winning_trades == Cardinality({i \in 1..Len(trades) : pnl_values[i] > 0})
             losing_trades  == Cardinality({i \in 1..Len(trades) : pnl_values[i] <= 0})
             bars == [i \in 1..Len(trades) |-> trades[i].bars_held]
         IN  [totalTrades    |-> Len(trades),
              winningTrades  |-> winning_trades,
              losingTrades   |-> losing_trades,
              winRate        |-> Div(winning_trades * 10000, Len(trades)),
              averagePnl     |-> Div(SumFirst(pnl_values, Len(trades)), Len(trades)),
              totalPnl       |-> SumFirst(pnl_values, Len(trades)),
              maxProfit      |-> MaxOver(pnl_values, Len(trades)),
              maxLoss        |-> MinOver(pnl_values, Len(trades)),
              avgBarsHeld    |-> Div(SumFirst(bars, Len(trades)) * 100, Len(trades)),
              startTimestamp |-> start_time,
              endTimestamp   |-> end_time]

\* _calculate_summary_statistics: the summary dict without its two labels
SummaryStatistics(trades) ==
    LET all        == trades.long \o trades.short
        start_time == IF all = <<>> THEN 0
                      ELSE MinOver([i \in 1..Len(all) |-> all[i].entryTime], Len(all))
        end_time   == IF all = <<>> THEN 0
                      ELSE MaxOver([i \in 1..Len(all) |-> all[i].exitTime], Len(all))
    IN  [long     |-> DirectionSummary(trades.long, start_time, end_time),
         short    |-> DirectionSummary(trades.short, start_time, end_time),
         combined |-> DirectionSummary(all, start_time, end_time)]

(***************************************************************************)
(* Bounds and input domains                                                *)
(***************************************************************************)

MaxSymbols == 3          \* instruments in one ranking evaluation
MaxCandles == 4          \* candles of the instrument a trade is simulated on
MaxHold == 3             \* largest max_bars argument tried
MaxCalls == 3            \* detect_opportunities calls on one detector
MaxTail == 3             \* candles of an instrument behind its warm-up candles
MaxAppends == 11         \* snapshots appended to one detector's ranking history
MaxThreads == 2          \* update-loop threads one handler creates
MaxEntryBars == 4        \* candles of an instrument whose rankings are given
MaxRsiLen == 5           \* candles of a sequence handed to calculate_rsi
MaxSignalBars == 5       \* candles that arrive behind the warm-up of the price metric
MaxTrades == 3           \* trades of one direction handed to the summary
MaxCycles == 4           \* evaluation cycles the update loops begin

\* metric values tried by the ranking engine (None = missing value)
MetricInputs ==
    [volume_metric : {None, 0, 1}, momentum_metric : {-1, 1},
     total_pct_change : {2}, zscore_metric : {0}, price_metric : {None, 3}]

MetricRecord(symbol, m) ==
    [symbol |-> symbol, price |-> 1000, in_uptrend |-> TRUE] @@ m

\* metric values of the evaluations whose rankings are compared
ChangeInputs ==
    {m \in MetricInputs : m.volume_metric # None /\ m.price_metric # None
                          /\ m.volume_metric >= m.momentum_metric}

\* the rankings calculate_rankings gives the first Len(ms) instruments
RankingsOf(ms) ==
    CalculateRankings([i \in 1..Len(ms) |-> MetricRecord(SymbolNames[i], ms[i])])

\* the previous rankings tried: none, or those of an earlier evaluation
PreviousRankingsInputs ==
    {NoneRec} \cup UNION {{RankingsOf(ms) : ms \in [1..n -> ChangeInputs]} : n \in 0..MaxSymbols}

\* the candles that arrive between the evaluations of the price metric
SignalShapes == {"rally", "slump", "flat"}

\* periods and multipliers tried by calculate_supertrend; the longest period
\* is longer than every candle list tried
SupertrendPeriods == {SUPERTREND_PERIOD \div 2, SUPERTREND_PERIOD, 4 * SUPERTREND_PERIOD}
SupertrendMultipliers == {1, SUPERTREND_MULTIPLIER}

\* closes and periods tried by calculate_rsi, closes in tenths
RsiCloses == {985, 1000, 1005}
RsiPeriods == {2, 3}
RsiCloseSeqs ==
    UNION {[1..n -> RsiCloses] : n \in 1..MaxRsiLen}

\* closes tried by the trade simulation, in tenths: 98.4 .. 103.2
Prices == {984, 985, 1000, 1005, 1030, 1032}

\* <<take_profit, stop_loss>> pairs tried: the configured defaults and a tight pair
ExitRules == {<<TAKE_PROFIT, STOP_LOSS>>, <<5, 4>>}

CandleSeqs ==
    UNION {[1..n -> Prices] : n \in 1..MaxCandles}

Candles(closes) == [i \in 1..Len(closes) |-> [close |-> closes[i], timestamp |-> i - 1]]

\* a RankingRecord of one instrument as calculate_rankings emits it, taken from
\* an evaluation of a universe of more than 40 instruments
RankingOf(symbol, overall_rank, ranks, m) ==
    [symbol |-> symbol, price |-> m.price,
     volume_metric |-> m.volume_metric, volume_rank |-> ranks[1],
     momentum_metric |-> m.momentum_metric, momentum_rank |-> ranks[2],
     total_pct_change |-> m.total_pct_change, total_pct_rank |-> ranks[3],
     zscore_metric |-> m.zscore_metric, zscore_rank |-> ranks[4],
     price_metric |-> m.price_metric, price_rank |-> ranks[5],
     total_score |-> ranks[1] + ranks[2] + ranks[3] + ranks[4] + ranks[5],
     in_uptrend |-> m.in_uptrend, overall_rank |-> overall_rank]

\* metric records (values in hundredths) of a rising and of a falling instrument
RisingMetric(symbol) ==
    [symbol |-> symbol, volume_metric |-> 250, momentum_metric |-> 40,
     total_pct_change |-> 120, zscore_metric |-> 100, price_metric |-> 150,
     price |-> 1000, in_uptrend |-> TRUE]
FallingMetric(symbol) ==
    [symbol |-> symbol, volume_metric |-> 50, momentum_metric |-> -40,
     total_pct_change |-> -120, zscore_metric |-> -100, price_metric |-> -300,
     price |-> 1000, in_uptrend |-> FALSE]

RankChange(symbol, delta) ==
    [symbol |-> symbol, volume_rank_change |-> delta, momentum_rank_change |-> delta,
     total_pct_rank_change |-> delta, zscore_rank_change |-> delta,
     price_rank_change |-> delta, overall_rank_change |-> delta]

\* what one evaluation cycle hands to detect_opportunities for the watched
\* instrument: overall ranks on both sides of 20 and of 40, per-metric rank
\* sums 20, 25, 70, 75 and 205 (differences of 45, 50 and 55), or no record
DetSymbol == "BTCUSDT"
DetInput(overall_rank, ranks, m, delta) ==
    [rankings        |-> (DetSymbol :> RankingOf(DetSymbol, overall_rank, ranks, m)),
     ranking_changes |-> (DetSymbol :> RankChange(DetSymbol, delta)),
     metrics         |-> (DetSymbol :> m)]
DetInputs ==
    { DetInput(20, <<4, 4, 4, 4, 4>>, RisingMetric(DetSymbol), 10),
      DetInput(10, <<5, 5, 5, 5, 5>>, RisingMetric(DetSymbol), 1),
      DetInput(21, <<10, 18, 14, 12, 16>>, FallingMetric(DetSymbol), -1),
      DetInput(40, <<25, 5, 15, 20, 10>>, FallingMetric(DetSymbol), -20),
      DetInput(41, <<41, 41, 41, 41, 41>>, FallingMetric(DetSymbol), 0),
      [rankings |-> EmptyDict, ranking_changes |-> EmptyDict, metrics |-> EmptyDict] }

\* what the calls that fill the history hand over: the watched instrument in
\* the top 20, or beyond rank 40
HistoryInputs ==
    { DetInput(10, <<5, 5, 5, 5, 5>>, RisingMetric(DetSymbol), 1),
      DetInput(41, <<41, 41, 41, 41, 41>>, FallingMetric(DetSymbol), 0) }

\* metric records (values in hundredths) the strength is computed for: volume
\* ratios from 0 to 10, momentum on both sides of 0, prices from 10 percent
\* under to 5 percent over the signal level, or the empty dict of a symbol
\* without metrics
StrengthMetrics ==
    [volume_metric : {0, 50, 250, 1000}, momentum_metric : {-200, 0, 40},
     zscore_metric : {-400, 0, 100}, price_metric : {-1000, -300, 0, 150, 500}]
       \cup {EmptyDict}

\* the in_uptrend entry of a ranking record: set, or missing
StrengthRankings == {[in_uptrend |-> TRUE], [in_uptrend |-> FALSE], EmptyDict}

StrengthChanges == {[overall_rank_change |-> c] : c \in {-20, 0, 10}} \cup {EmptyDict}

\* ---- bars with given rankings ----

\* the two instruments watched, taken from an evaluation of a universe of more
\* than 40 instruments
EntrySymbols == SubSeq(SymbolNames, 1, 2)

\* closes of the first instrument, one per bar; the second has one bar less
EntryCloses == {<<1000, 1032, 984, 1005, 1000>>, <<1000, 1005, 1000, 985, 1030>>}
EntryData(closes) ==
    (EntrySymbols[1] :> Candles(SubSeq(closes, 1, MaxEntryBars)))
    @@ (EntrySymbols[2] :> Candles(SubSeq(<<1000, 984, 1030, 1005>>, 1, MaxEntryBars - 1)))

\* <<overall_rank, momentum_metric>> of the first instrument at a bar: ranks on
\* both sides of 20 and of 40, momentum on both sides of 0
EntryDraws ==
    {<<15, 40>>, <<20, 40>>, <<20, -40>>, <<20, 0>>,
     <<21, 40>>, <<21, -40>>, <<40, -40>>, <<41, -40>>}

\* ... of the second instrument: it goes back and forth between ranks 30 and 10
EntrySecond(bar_idx) == IF bar_idx % 2 = 0 THEN <<30, -40>> ELSE <<10, 40>>

EntryMetric(symbol, draw) ==
    [symbol |-> symbol, volume_metric |-> 250, momentum_metric |-> draw[2],
     total_pct_change |-> 120, zscore_metric |-> 100, price_metric |-> 150,
     price |-> 1000, in_uptrend |-> draw[2] > 0]

\* metrics and rankings of a bar at which the instruments in present are
\* ranked as draws says
EntryMetrics(present, draws) ==
    [symbol \in present |->
        LET k == CHOOSE j \in 1..Len(EntrySymbols) : EntrySymbols[j] = symbol
        IN  EntryMetric(symbol, draws[k])] @@ EmptyDict
EntryRankings(present, draws) ==
    [symbol \in present |->
        LET k == CHOOSE j \in 1..Len(EntrySymbols) : EntrySymbols[j] = symbol
            r == draws[k][1]
        IN  RankingOf(symbol, r, <<r, r, r, r, r>>, EntryMetric(symbol, draws[k]))] @@ EmptyDict

\* seconds between two evaluation cycles (update_interval of the live loop)
CycleSeconds == 10

\* seconds between the end of one call and the start of the next
CallGaps == {90, 3600}
\* seconds between the two datetime.now() readings of one call
ClockTicks == {0, 1}

\* ---- candle sets of the backtest ----

\* the instruments of a candle set
BacktestSymbols == SubSeq(SymbolNames, 1, 2)

\* every instrument starts with one candle less than calculate_all_metrics asks for
WarmupLen == MinRequiredData - 1

\* the warm-up candles of the k-th instrument: closes cycling around 100.0
WarmupCandles(k) ==
    [i \in 1..WarmupLen |->
        LET close == 1000 + ((i * (k + 1)) % 5) * 4 - 8
        IN  [high |-> close + 6, low |-> close - 6, close |-> close,
             volume |-> 100 + 10 * k, timestamp |-> i - 1]]

\* the candle shapes tried behind the warm-up
CandleShapes == {"rally", "slump"}

ShapedCandle(shape, timestamp) ==
    IF shape = "rally"
    THEN [high |-> 1040, low |-> 1000, close |-> 1035, volume |-> 400, timestamp |-> timestamp]
    ELSE IF shape = "slump"
    THEN [high |-> 1000, low |-> 930, close |-> 935, volume |-> 400, timestamp |-> timestamp]
    ELSE [high |-> 1006, low |-> 994, close |-> 1000, volume |-> 100, timestamp |-> timestamp]

\* the shape an altered candle takes
AlteredShape(shape) ==
    IF shape = "rally" THEN "slump" ELSE IF shape = "slump" THEN "quiet" ELSE "rally"

\* a candle set: the warm-up of each instrument followed by its shaped candles
CandleSet(shapes) ==
    [symbol \in {BacktestSymbols[k] : k \in 1..Len(BacktestSymbols)} |->
        LET k == CHOOSE j \in 1..Len(BacktestSymbols) : BacktestSymbols[j] = symbol
        IN  WarmupCandles(k) \o
            [j \in 1..Len(shapes[k]) |-> ShapedCandle(shapes[k][j], WarmupLen + j - 1)]]

\* candle sets, ranges and failing bars of the runs that try the range check
\* and the exception handler
RunShapes ==
    [1..Len(BacktestSymbols) -> [1..MaxTail -> CandleShapes]]
RunStarts == {-1, WarmupLen, WarmupLen + 2}
RunEnds == {None, WarmupLen, WarmupLen + 1, WarmupLen + 3}
RunRaising == {{}, {WarmupLen + 1}, {WarmupLen, WarmupLen + 2}}

\* closes at which the trades handed to the summary left a position entered
\* at 100.0: a gain, a loss and neither
SummaryExits == {985, 1000, 1030}

\* the trades of a direction with these exits, entered one bar after the other
SampleTrades(direction, exits, first_bar) ==
    [k \in 1..Len(exits) |->
        [symbol     |-> SymbolNames[1],
         direction  |-> direction,
         pnl        |-> PnlPct(direction, exits[k], 1000),
         bars_held  |-> k,
         entryTime  |-> first_bar + k,
         exitTime   |-> first_bar + k + k]] \o <<>>

\* the candle lists tried by calculate_all_metrics: up to two candles short of
\* the required count, or the warm-up and one or two shaped candles
CandleListInputs ==
    {[short |-> d, tail |-> <<>>] : d \in 0..1}
    \cup {[short |-> 0, tail |-> tail] : tail \in UNION {[1..m -> CandleShapes] : m \in 1..2}}

CandleList(k, input) ==
    SubSeq(WarmupCandles(k), 1, WarmupLen - input.short)
    \o [j \in 1..Len(input.tail) |-> ShapedCandle(input.tail[j], WarmupLen + j - 1)]

\* what happens to the candles behind the first keep shaped candles in the
\* second candle set
Alterations == {"altered", "removed", "removed_first"}

AlterShapes(shapes, keep, alteration) ==
    [k \in 1..Len(shapes) |->
        IF alteration = "removed" \/ (alteration = "removed_first" /\ k = 1)
        THEN SubSeq(shapes[k], 1, keep)
        ELSE [j \in 1..Len(shapes[k]) |->
                 IF j <= keep THEN shapes[k][j] ELSE AlteredShape(shapes[k][j])]]

(***************************************************************************)
(* State machines                                                          *)
(***************************************************************************)

\* BacktestEngine() without a db_manager
NoDatabase == db_manager = FALSE /\ db_rows = <<>>

\* no executions sharing the engine
ExecIdle == execPc = <<>> /\ execLocals = <<>> /\ execReturned = <<>>

\* BacktestEngine.__init__, before any run_backtest call
BacktestConstructed ==
    /\ historical_data = <<>>
    /\ start_idx = 0
    /\ run = 0
    /\ btPc = "idle"
    /\ cur_idx = 0
    /\ end_idx = None
    /\ raising = {}
    /\ NoDatabase
    /\ ExecIdle
    /\ last_rankings = NoneRec
    /\ bar_opportunities = [long |-> <<>>, short |-> <<>>]
    /\ results = [long |-> <<>>, short |-> <<>>]
    /\ summary = NoneRec
    /\ returned = NoneRec
    /\ bar_log = <<>>

\* OpportunityDetector.__init__
DetConstructed ==
    /\ detected_opportunities = [long |-> {}, short |-> {}]
    /\ last_detection_time = None
    /\ ranking_history = <<>>
    /\ opportunities = [long |-> <<>>, short |-> <<>>]
    /\ clock = 0
    /\ detCalls = 0
    /\ snapshot_log = <<>>

\* WebUIWebSocketHandler.__init__: not running, no update-loop thread
HandlerConstructed ==
    /\ running = FALSE
    /\ thread = None
    /\ current_timeframe = "1m"
    /\ handler_previous_rankings = NoneRec
    /\ stopping = FALSE
    /\ threadPc = [t \in 1..MaxThreads |-> "unborn"]
    /\ threadLocals = [t \in 1..MaxThreads |-> NoneRec]
    /\ cycles = 0

\* no pure function called yet
StrengthIdle  == strengthArgs = NoneRec /\ strengthResult = None
ChangesIdle   == changesArgs = NoneRec /\ changesResult = NoneRec
IndicatorIdle == indicatorArgs = NoneRec /\ indicatorResult = <<>>

SignalIdle    == signal_data = <<>> /\ signal_prices = NewSymbolInfo

FnIdle == StrengthIdle /\ ChangesIdle /\ IndicatorIdle /\ SignalIdle

RankIdle  == metrics = <<>> /\ rankings = EmptyDict /\ rankPc = "idle" /\ candle_data = EmptyDict
TradeIdle == symbol_data = <<>> /\ tradeArgs = NoneRec /\ tradeResult = NoneRec /\ tradePc = "idle"

\* ---- ranking engine: one call of calculate_rankings on a drawn mapping ----
InitRank ==
    /\ \E n \in 0..MaxSymbols :
         \E ms \in [1..n -> MetricInputs] :
            metrics = [i \in 1..n |-> MetricRecord(SymbolNames[i], ms[i])]
    /\ rankings = EmptyDict
    /\ rankPc = "input"
    /\ candle_data = EmptyDict
    /\ TradeIdle
    /\ DetConstructed
    /\ HandlerConstructed
    /\ FnIdle
    /\ BacktestConstructed

\* the list of metric records behind a call of calculate_rankings: the five
\* calls of rank_by_metric on it, in the order of lines 29-33
MetricsAfterCall(metrics_list) ==
    ItemsAfterSort(
      ItemsAfterSort(
        ItemsAfterSort(
          ItemsAfterSort(
            ItemsAfterSort(metrics_list, "volume_metric", FALSE),
            "momentum_metric", FALSE),
          "total_pct_change", FALSE),
        "zscore_metric", FALSE),
      "price_metric", FALSE)

CallCalculateRankings ==
    /\ rankPc = "input"
    /\ rankings' = CalculateRankings(metrics)
    /\ metrics' = MetricsAfterCall(metrics)
    /\ rankPc' = "done"
    /\ UNCHANGED <<candle_data, tradeVars, detVars, btVars, liveVars, fnVars>>

\* the caller calls calculate_rankings a second time on the same mapping
CallCalculateRankingsAgain ==
    /\ rankPc = "done"
    /\ rankings' = CalculateRankings(metrics)
    /\ metrics' = MetricsAfterCall(metrics)
    /\ rankPc' = "again"
    /\ UNCHANGED <<candle_data, tradeVars, detVars, btVars, liveVars, fnVars>>

NextRank == CallCalculateRankings \/ CallCalculateRankingsAgain

SpecRank == InitRank /\ [][NextRank]_vars

\* ---- metrics and rankings of instruments with different candle counts:
\*      calculate_all_metrics on a drawn candle set, then calculate_rankings ----
InitMetrics ==
    /\ \E n \in 1..MaxSymbols :
         \E lists \in [1..n -> CandleListInputs] :
            candle_data = [symbol \in {SymbolNames[k] : k \in 1..n} |->
                              LET k == CHOOSE j \in 1..n : SymbolNames[j] = symbol
                              IN  CandleList(k, lists[k])] @@ EmptyDict
    /\ metrics = <<>>
    /\ rankings = EmptyDict
    /\ rankPc = "data"
    /\ TradeIdle
    /\ DetConstructed
    /\ HandlerConstructed
    /\ FnIdle
    /\ BacktestConstructed

CallCalculateAllMetrics ==
    /\ rankPc = "data"
    /\ metrics' = DictValues(CalculateAllMetrics(candle_data))
    /\ rankPc' = "input"
    /\ UNCHANGED <<rankings, candle_data, tradeVars, detVars, btVars, liveVars, fnVars>>

NextMetrics == CallCalculateAllMetrics \/ CallCalculateRankings

SpecMetrics == InitMetrics /\ [][NextMetrics]_vars

\* ---- trade simulation: one call of _simulate_single_trade, with the
\*      arguments _simulate_trades passes (lines 338-357) ----
InitTrade ==
    /\ \E closes \in CandleSeqs : symbol_data = Candles(closes)
    /\ \E direction \in {"long", "short"}, max_bars \in 1..MaxHold,
          entry_bar_idx \in 0..(MaxCandles - 1), rule \in ExitRules :
         /\ entry_bar_idx < Len(symbol_data)
         /\ tradeArgs = [symbol        |-> "BTCUSDT",
                         direction     |-> direction,
                         entry_bar_idx |-> entry_bar_idx,
                         entry_price   |-> symbol_data[entry_bar_idx + 1].close,
                         entry_time    |-> symbol_data[entry_bar_idx + 1].timestamp,
                         take_profit   |-> rule[1],
                         stop_loss     |-> rule[2],
                         max_bars      |-> max_bars]
    /\ tradeResult = NoneRec
    /\ tradePc = "input"
    /\ RankIdle
    /\ DetConstructed
    /\ HandlerConstructed
    /\ FnIdle
    /\ BacktestConstructed

CallSimulateSingleTrade ==
    /\ tradePc = "input"
    /\ tradeResult' = SimulateSingleTrade(symbol_data, tradeArgs.symbol, tradeArgs.direction,
                                          tradeArgs.entry_bar_idx, tradeArgs.entry_price,
                                          tradeArgs.entry_time, tradeArgs.take_profit,
                                          tradeArgs.stop_loss, tradeArgs.max_bars)
    /\ tradePc' = "done"
    /\ UNCHANGED <<symbol_data, tradeArgs, rankVars, detVars, btVars, liveVars, fnVars>>

NextTrade == CallSimulateSingleTrade

SpecTrade == InitTrade /\ [][NextTrade]_vars

\* ---- opportunity detector: a sequence of detect_opportunities calls ----
InitDet == DetConstructed /\ HandlerConstructed /\ FnIdle /\ RankIdle /\ TradeIdle /\ BacktestConstructed

\* detect_opportunities(rankings, ranking_changes, metrics): add_ranking_history
\* reads the clock (t1), reset_detection_state reads it again (t2)
DetectOpportunitiesAt(input, t1, t2) ==
    LET history  == AddRankingHistory(ranking_history, input.rankings, t1)
        reset    == ResetDue(last_detection_time, t2)
        detected == IF reset THEN [long |-> {}, short |-> {}]
                    ELSE detected_opportunities
        acc      == DetectLoop(DictOrder(input.rankings), 1, input.rankings,
                               input.ranking_changes, input.metrics, history,
                               [detected |-> detected, long |-> <<>>, short |-> <<>>])
    IN  /\ ranking_history' = history
        /\ snapshot_log' = Append(snapshot_log, [timestamp |-> t1, rankings |-> input.rankings])
        /\ last_detection_time' = IF reset THEN t2 ELSE last_detection_time
        /\ detected_opportunities' = acc.detected
        /\ opportunities' = [long  |-> SortByStrength(acc.long),
                             short |-> SortByStrength(acc.short)]
        /\ clock' = t2

\* a detect_opportunities call of the caller that owns the detector
DetectOpportunities ==
    /\ detCalls < MaxCalls
    /\ \E input \in DetInputs, gap \in CallGaps, tick \in ClockTicks :
         DetectOpportunitiesAt(input, clock + gap, clock + gap + tick)
    /\ detCalls' = detCalls + 1
    /\ UNCHANGED <<rankVars, tradeVars, btVars, liveVars, fnVars>>

NextDet == DetectOpportunities

SpecDet == InitDet /\ [][NextDet]_vars

\* ---- ranking history: add_ranking_history and detect_opportunities called
\*      in any order on one detector ----
CallAddRankingHistory ==
    /\ Len(snapshot_log) < MaxAppends
    /\ \E input \in HistoryInputs :
         /\ ranking_history' = AddRankingHistory(ranking_history, input.rankings,
                                                 clock + CycleSeconds)
         /\ snapshot_log' = Append(snapshot_log, [timestamp |-> clock + CycleSeconds,
                                                  rankings  |-> input.rankings])
    /\ clock' = clock + CycleSeconds
    /\ UNCHANGED <<detected_opportunities, last_detection_time, opportunities, detCalls>>
    /\ UNCHANGED <<rankVars, tradeVars, btVars, liveVars, fnVars>>

CallDetectOpportunities ==
    /\ Len(snapshot_log) < MaxAppends
    /\ \E input \in HistoryInputs :
         DetectOpportunitiesAt(input, clock + CycleSeconds, clock + CycleSeconds)
    /\ UNCHANGED detCalls
    /\ UNCHANGED <<rankVars, tradeVars, btVars, liveVars, fnVars>>

NextHistory == CallAddRankingHistory \/ CallDetectOpportunities

SpecHistory == InitDet /\ [][NextHistory]_vars

\* ---- live updates: start / stop / change_timeframe called one after another
\*      on one WebUIWebSocketHandler, and the update-loop threads it creates ----
InitLive == InitDet

Timeframes == {"1m", "5m"}

ThreadIds == 1..MaxThreads

\* threads whose _update_loop has not returned
ActiveThreads == {t \in ThreadIds : threadPc[t] \in {"top", "mid", "sleep"}}

\* start(): refused while self.running; otherwise (connect succeeded) sets
\* self.running and starts a new thread on _update_loop (lines 78-115)
Start ==
    /\ ~stopping
    /\ ~running
    /\ \E t \in ThreadIds :
         /\ threadPc[t] = "unborn"
         /\ \A u \in ThreadIds : u < t => threadPc[u] # "unborn"
         /\ running' = TRUE
         /\ thread' = t
         /\ threadPc' = [threadPc EXCEPT ![t] = "top"]
    /\ \E timeframe \in Timeframes : current_timeframe' = timeframe
    /\ UNCHANGED <<handler_previous_rankings, stopping, threadLocals, cycles>>
    /\ UNCHANGED <<rankVars, tradeVars, detVars, btVars, fnVars>>

\* stop() up to the join (lines 124-131): clears self.running
StopBegin ==
    /\ ~stopping
    /\ running' = FALSE
    /\ stopping' = TRUE
    /\ UNCHANGED <<thread, current_timeframe, handler_previous_rankings, threadPc,
                   threadLocals, cycles>>
    /\ UNCHANGED <<rankVars, tradeVars, detVars, btVars, fnVars>>

\* thread.join(timeout=5) returns (lines 130-132): the thread has ended, or the
\* five seconds ran out while it was still inside an evaluation
StopEnd ==
    /\ stopping
    /\ \/ thread = None
       \/ thread # None /\ threadPc[thread] = "done"
       \/ thread # None /\ threadPc[thread] = "mid"
    /\ thread' = None
    /\ stopping' = FALSE
    /\ UNCHANGED <<running, current_timeframe, handler_previous_rankings, threadPc,
                   threadLocals, cycles>>
    /\ UNCHANGED <<rankVars, tradeVars, detVars, btVars, fnVars>>

\* change_timeframe(timeframe) while running (lines 326-359): the new timeframe
\* is stored before the reconnect; the handler's data is reset if it succeeds
ChangeTimeframe ==
    /\ ~stopping
    /\ running
    /\ \E timeframe \in Timeframes, success \in BOOLEAN :
         /\ current_timeframe' = timeframe
         /\ handler_previous_rankings' =
               IF success THEN NoneRec ELSE handler_previous_rankings
    /\ UNCHANGED <<running, thread, stopping, threadPc, threadLocals, cycles>>
    /\ UNCHANGED <<rankVars, tradeVars, detVars, btVars, fnVars>>

\* thread t at `while self.running` (line 188) and, when it goes on, through
\* _calculate_and_broadcast_updates up to add_ranking_history (lines 205-259);
\* without klines the call returns at once (lines 207-230)
LoopTop(t) ==
    /\ threadPc[t] = "top"
    /\ IF ~running
       THEN /\ threadPc' = [threadPc EXCEPT ![t] = "done"]
            /\ UNCHANGED <<handler_previous_rankings, threadLocals, cycles, detVars>>
       ELSE \/ /\ threadPc' = [threadPc EXCEPT ![t] = "sleep"]
               /\ UNCHANGED <<handler_previous_rankings, threadLocals, cycles, detVars>>
            \/ /\ cycles < MaxCycles
               /\ \E input \in HistoryInputs :
                    /\ threadLocals' = [threadLocals EXCEPT ![t] =
                          [rankings        |-> input.rankings,
                           ranking_changes |-> CalculateRankingChanges(input.rankings,
                                                   handler_previous_rankings),
                           metrics         |-> input.metrics]]
                    /\ handler_previous_rankings' = input.rankings
                    /\ ranking_history' = AddRankingHistory(ranking_history, input.rankings,
                                                            clock + CycleSeconds)
                    /\ snapshot_log' = Append(snapshot_log,
                                              [timestamp |-> clock + CycleSeconds,
                                               rankings  |-> input.rankings])
               /\ clock' = clock + CycleSeconds
               /\ cycles' = cycles + 1
               /\ threadPc' = [threadPc EXCEPT ![t] = "mid"]
               /\ UNCHANGED <<detected_opportunities, last_detection_time, opportunities,
                              detCalls>>
    /\ UNCHANGED <<running, thread, current_timeframe, stopping>>
    /\ UNCHANGED <<rankVars, tradeVars, btVars, fnVars>>

\* thread t from detect_opportunities to the end of the evaluation (lines 262-311)
CycleDetect(t) ==
    /\ threadPc[t] = "mid"
    /\ DetectOpportunitiesAt(threadLocals[t], clock, clock)
    /\ threadPc' = [threadPc EXCEPT ![t] = "sleep"]
    /\ threadLocals' = [threadLocals EXCEPT ![t] = NoneRec]
    /\ UNCHANGED <<running, thread, current_timeframe, handler_previous_rankings,
                   stopping, cycles, detCalls>>
    /\ UNCHANGED <<rankVars, tradeVars, btVars, fnVars>>

\* thread t leaves the sleep of lines 194-197, update_interval seconds later or
\* as soon as it sees self.running cleared; the clock is read, and moves on in
\* the model, where the next evaluation begins
SleepDone(t) ==
    /\ threadPc[t] = "sleep"
    /\ threadPc' = [threadPc EXCEPT ![t] = "top"]
    /\ UNCHANGED <<running, thread, current_timeframe, handler_previous_rankings,
                   stopping, threadLocals, cycles, detVars>>
    /\ UNCHANGED <<rankVars, tradeVars, btVars, fnVars>>

UpdateLoop == \E t \in ThreadIds : LoopTop(t) \/ CycleDetect(t) \/ SleepDone(t)

NextLive == Start \/ StopBegin \/ StopEnd \/ ChangeTimeframe \/ UpdateLoop

SpecLive == InitLive /\ [][NextLive]_vars

\* ---- ranking changes: one call of calculate_ranking_changes on the rankings
\*      of two evaluations, the earlier one possibly absent, empty, or over
\*      fewer or more instruments ----
InitChanges ==
    /\ \E n \in 0..MaxSymbols, previous \in PreviousRankingsInputs :
         \E ms \in [1..n -> ChangeInputs] :
            changesArgs = [current_rankings  |-> RankingsOf(ms),
                           previous_rankings |-> previous]
    /\ changesResult = NoneRec
    /\ StrengthIdle
    /\ IndicatorIdle
    /\ SignalIdle
    /\ DetConstructed /\ HandlerConstructed /\ RankIdle /\ TradeIdle /\ BacktestConstructed

CallCalculateRankingChanges ==
    /\ changesResult = NoneRec
    /\ changesResult' = CalculateRankingChanges(changesArgs.current_rankings,
                                                changesArgs.previous_rankings)
    /\ UNCHANGED <<changesArgs, strengthArgs, strengthResult, indicatorArgs, indicatorResult,
                   signal_data, signal_prices>>
    /\ UNCHANGED <<rankVars, tradeVars, detVars, btVars, liveVars>>

NextChanges == CallCalculateRankingChanges

SpecChanges == InitChanges /\ [][NextChanges]_vars

\* ---- price metric: calculate_all_metrics evaluated again and again on one
\*      instrument whose candle list grows by a candle between evaluations ----
InitSignal ==
    /\ signal_data = WarmupCandles(1)
    /\ signal_prices = NewSymbolInfo
    /\ StrengthIdle /\ ChangesIdle /\ IndicatorIdle
    /\ DetConstructed /\ HandlerConstructed /\ RankIdle /\ TradeIdle /\ BacktestConstructed

\* a candle arrives and calculate_all_metrics runs: it creates the entry of
\* signal_prices anew (lines 298-305) and hands it to calculate_price_metric
EvaluatePriceMetric ==
    /\ Len(signal_data) < WarmupLen + MaxSignalBars
    /\ \E shape \in SignalShapes :
         \E data \in {Append(signal_data, ShapedCandle(shape, Len(signal_data)))} :
            /\ signal_data' = data
            /\ signal_prices' = CalculatePriceMetric(data, NewSymbolInfo).symbol_info
    /\ UNCHANGED <<strengthArgs, strengthResult, changesArgs, changesResult,
                   indicatorArgs, indicatorResult>>
    /\ UNCHANGED <<rankVars, tradeVars, detVars, btVars, liveVars>>

NextSignal == EvaluatePriceMetric

SpecSignal == InitSignal /\ [][NextSignal]_vars

\* ---- RSI: one call of calculate_rsi on a drawn close sequence ----
InitRsi ==
    /\ \E closes \in RsiCloseSeqs, period \in RsiPeriods :
         indicatorArgs = [data |-> Candles(closes), period |-> period]
    /\ indicatorResult = <<>>
    /\ StrengthIdle /\ ChangesIdle /\ SignalIdle
    /\ DetConstructed /\ HandlerConstructed /\ RankIdle /\ TradeIdle /\ BacktestConstructed

CallCalculateRsi ==
    /\ indicatorResult = <<>>
    /\ indicatorResult' = CalculateRsi(indicatorArgs.data, indicatorArgs.period) \o <<>>
    /\ UNCHANGED <<indicatorArgs, strengthArgs, strengthResult, changesArgs, changesResult,
                   signal_data, signal_prices>>
    /\ UNCHANGED <<rankVars, tradeVars, detVars, btVars, liveVars>>

NextRsi == CallCalculateRsi

SpecRsi == InitRsi /\ [][NextRsi]_vars

\* ---- Supertrend: one call of calculate_supertrend on the warm-up candles
\*      of an instrument followed by drawn candles ----
InitSupertrend ==
    /\ \E n \in 0..MaxSignalBars :
         \E shapes \in [1..n -> SignalShapes],
            period \in SupertrendPeriods, multiplier \in SupertrendMultipliers :
            indicatorArgs =
               [data |-> WarmupCandles(1) \o
                         [j \in 1..n |-> ShapedCandle(shapes[j], WarmupLen + j - 1)],
                period |-> period, multiplier |-> multiplier]
    /\ indicatorResult = <<>>
    /\ StrengthIdle /\ ChangesIdle /\ SignalIdle
    /\ DetConstructed /\ HandlerConstructed /\ RankIdle /\ TradeIdle /\ BacktestConstructed

CallCalculateSupertrend ==
    /\ indicatorResult = <<>>
    /\ indicatorResult' = CalculateSupertrend(indicatorArgs.data, indicatorArgs.period,
                                              indicatorArgs.multiplier) \o <<>>
    /\ UNCHANGED <<indicatorArgs, strengthArgs, strengthResult, changesArgs, changesResult,
                   signal_data, signal_prices>>
    /\ UNCHANGED <<rankVars, tradeVars, detVars, btVars, liveVars>>

NextSupertrend == CallCalculateSupertrend

SpecSupertrend == InitSupertrend /\ [][NextSupertrend]_vars

\* ---- opportunity strength: one call of _calculate_opportunity_strength ----
InitStrength ==
    /\ \E ranking \in StrengthRankings, changes \in StrengthChanges,
          metric \in StrengthMetrics, direction \in {"long", "short"} :
         strengthArgs = [ranking |-> ranking, changes |-> changes,
                         metrics |-> metric, direction |-> direction]
    /\ strengthResult = None
    /\ ChangesIdle
    /\ IndicatorIdle
    /\ SignalIdle
    /\ DetConstructed /\ HandlerConstructed /\ RankIdle /\ TradeIdle /\ BacktestConstructed

CallOpportunityStrength ==
    /\ strengthResult = None
    /\ strengthResult' = OpportunityStrength(strengthArgs.ranking, strengthArgs.changes,
                                             strengthArgs.metrics, strengthArgs.direction)
    /\ UNCHANGED <<strengthArgs, changesArgs, changesResult, indicatorArgs, indicatorResult,
                   signal_data, signal_prices>>
    /\ UNCHANGED <<rankVars, tradeVars, detVars, btVars, liveVars>>

NextStrength == CallOpportunityStrength

SpecStrength == InitStrength /\ [][NextStrength]_vars

\* ---- backtest: run_backtest called on a candle set, then on a second one
\*      that keeps every candle up to some bar and alters or drops later ones ----
InitBacktest ==
    /\ \E n \in 2..MaxTail, keep \in 1..(MaxTail - 1), alteration \in Alterations :
         \E shapes \in [1..Len(BacktestSymbols) -> [1..n -> CandleShapes]] :
            /\ keep < n
            /\ historical_data = <<CandleSet(shapes),
                                   CandleSet(AlterShapes(shapes, keep, alteration))>>
    /\ start_idx \in {WarmupLen - 1, WarmupLen}
    /\ run = 1
    /\ btPc = "call"
    /\ cur_idx = 0
    /\ end_idx = None
    /\ raising = {}
    /\ NoDatabase
    /\ ExecIdle
    /\ last_rankings = NoneRec
    /\ bar_opportunities = [long |-> <<>>, short |-> <<>>]
    /\ results = [long |-> <<>>, short |-> <<>>]
    /\ summary = NoneRec
    /\ returned = NoneRec
    /\ bar_log = [r \in 1..2 |-> EmptyDict]
    /\ RankIdle
    /\ TradeIdle
    /\ DetConstructed
    /\ HandlerConstructed
    /\ FnIdle

\* max(len(data) for data in historical_data.values()) if historical_data else 0
MaxLen(data_by_symbol) ==
    IF DOMAIN data_by_symbol = {} THEN 0
    ELSE CHOOSE n \in {Len(data_by_symbol[s]) : s \in DOMAIN data_by_symbol} :
            \A s \in DOMAIN data_by_symbol : Len(data_by_symbol[s]) <= n

\* the range test without its upper limit
InvalidIndicesNoUpper(start, end, max_len) ==
    start >= end \/ start < 0

\* the range test of run_backtest (line 82)
InvalidIndices(start, end, max_len) ==
    start >= end \/ start < 0 \/ end >= max_len

\* run_backtest up to the bar loop (lines 73-93): defaults, range validation
EnterRunBacktest ==
    /\ btPc = "call"
    /\ LET max_len == MaxLen(historical_data[run])
           last    == IF end_idx = None THEN max_len - 1 ELSE end_idx
       IN  /\ end_idx' = last
           /\ IF InvalidIndices(start_idx, last, max_len)
              THEN /\ returned' = [long |-> <<>>, short |-> <<>>, summary |-> NoneRec]
                   /\ btPc' = "returned"
                   /\ UNCHANGED <<cur_idx, last_rankings, bar_opportunities>>
              ELSE /\ cur_idx' = start_idx
                   /\ last_rankings' = NoneRec
                   /\ bar_opportunities' = [long |-> <<>>, short |-> <<>>]
                   /\ btPc' = "loop"
                   /\ UNCHANGED returned
    /\ UNCHANGED <<historical_data, start_idx, run, raising, results, summary, bar_log>>
    /\ UNCHANGED <<rankVars, tradeVars, detVars, liveVars, fnVars, dbVars, execVars>>

\* what a pass of the bar loop does with what it computed (lines 117-124)
StoreBar(bar) ==
    /\ bar_opportunities' =
          [long  |-> bar_opportunities.long \o bar.opportunities.long,
           short |-> bar_opportunities.short \o bar.opportunities.short]
    /\ last_rankings' = bar.rankings
    /\ bar_log' = [bar_log EXCEPT ![run] =
                      (cur_idx :> [metrics         |-> bar.metrics,
                                   rankings        |-> bar.rankings,
                                   ranking_changes |-> bar.ranking_changes,
                                   opportunities   |-> bar.opportunities]) @@ @]

\* one pass of the bar loop (lines 96-128)
ProcessBar ==
    /\ btPc = "loop"
    /\ cur_idx <= end_idx
    /\ cur_idx \notin raising
    /\ \E bar \in {BarResult(historical_data[run], cur_idx, last_rankings)} : StoreBar(bar)
    /\ cur_idx' = cur_idx + 1
    /\ UNCHANGED <<historical_data, start_idx, run, btPc, end_idx, raising, results, summary,
                   returned>>
    /\ UNCHANGED <<rankVars, tradeVars, detVars, liveVars, fnVars, dbVars, execVars>>

\* one pass of the bar loop at which calculate_all_metrics and
\* calculate_rankings return given records for the instruments that have a
\* candle at the bar (lines 96-128)
ProcessRankedBar ==
    /\ btPc = "loop"
    /\ cur_idx <= end_idx
    /\ \E d1 \in EntryDraws :
         \E present \in {DOMAIN CurrentData(historical_data[run], cur_idx)} :
           StoreBar(BarOfRankings(EntryMetrics(present, <<d1, EntrySecond(cur_idx)>>),
                                  EntryRankings(present, <<d1, EntrySecond(cur_idx)>>),
                                  cur_idx, last_rankings))
    /\ cur_idx' = cur_idx + 1
    /\ UNCHANGED <<historical_data, start_idx, run, btPc, end_idx, raising, results, summary,
                   returned>>
    /\ UNCHANGED <<rankVars, tradeVars, detVars, liveVars, fnVars, dbVars, execVars>>

\* the exception leaving the loop body before anything of the bar is stored
\* (an exception of lines 99-115)
SkipBarAborts ==
    /\ btPc = "loop"
    /\ cur_idx <= end_idx
    /\ cur_idx \in raising
    /\ btPc' = "returned"
    /\ UNCHANGED <<historical_data, start_idx, run, cur_idx, end_idx, raising, last_rankings,
                   bar_opportunities, results, summary, returned, bar_log>>
    /\ UNCHANGED <<rankVars, tradeVars, detVars, liveVars, fnVars, dbVars, execVars>>

\* a pass of the bar loop whose computations raise (lines 99-115): the handler
\* of lines 130-131 logs the error and the loop goes on with the next bar
SkipBar ==
    /\ btPc = "loop"
    /\ cur_idx <= end_idx
    /\ cur_idx \in raising
    /\ cur_idx' = cur_idx + 1
    /\ UNCHANGED <<historical_data, start_idx, run, btPc, end_idx, raising, last_rankings,
                   bar_opportunities, results, summary, returned, bar_log>>
    /\ UNCHANGED <<rankVars, tradeVars, detVars, liveVars, fnVars, dbVars, execVars>>

\* run_backtest behind the bar loop (lines 133-156): _simulate_trades with the
\* configured exits, _calculate_summary_statistics, the returned dict
FinishRunBacktest ==
    /\ btPc = "loop"
    /\ cur_idx > end_idx
    /\ \E trades \in
             {[long  |-> SimulateDirection(historical_data[run], bar_opportunities.long, 1,
                                           "long", TAKE_PROFIT, STOP_LOSS, MAX_BARS),
               short |-> SimulateDirection(historical_data[run], bar_opportunities.short, 1,
                                           "short", TAKE_PROFIT, STOP_LOSS, MAX_BARS)]} :
           /\ results' = trades
           /\ summary' = SummaryStatistics(trades)
           /\ returned' = [long |-> trades.long, short |-> trades.short,
                           summary |-> SummaryStatistics(trades)]
           /\ db_rows' = IF db_manager
                         THEN Append(db_rows, [long |-> trades.long, short |-> trades.short,
                                               summary |-> SummaryStatistics(trades)])
                         ELSE db_rows
    /\ btPc' = "returned"
    /\ UNCHANGED <<historical_data, start_idx, run, cur_idx, end_idx, raising, last_rankings,
                   bar_opportunities, bar_log, db_manager>>
    /\ UNCHANGED <<rankVars, tradeVars, detVars, liveVars, fnVars, execVars>>

\* ---- run_backtest behind the bar loop, call by call (lines 136-156) ----

\* self._simulate_trades(...) (lines 137-143)
SimulateTrades ==
    /\ btPc = "loop"
    /\ cur_idx > end_idx
    /\ results' =
          [long  |-> SimulateDirection(historical_data[run], bar_opportunities.long, 1,
                                       "long", TAKE_PROFIT, STOP_LOSS, MAX_BARS),
           short |-> SimulateDirection(historical_data[run], bar_opportunities.short, 1,
                                       "short", TAKE_PROFIT, STOP_LOSS, MAX_BARS)]
    /\ btPc' = "simulated"
    /\ UNCHANGED <<historical_data, start_idx, run, cur_idx, end_idx, raising, last_rankings,
                   bar_opportunities, summary, returned, bar_log>>
    /\ UNCHANGED <<rankVars, tradeVars, detVars, liveVars, fnVars, dbVars, execVars>>

\* run_backtest going on without the summary
CalculateSummaryStatisticsSkipped ==
    /\ btPc = "simulated"
    /\ btPc' = "summarised"
    /\ UNCHANGED <<historical_data, start_idx, run, cur_idx, end_idx, raising, last_rankings,
                   bar_opportunities, results, summary, returned, bar_log>>
    /\ UNCHANGED <<rankVars, tradeVars, detVars, liveVars, fnVars, dbVars, execVars>>

\* self._calculate_summary_statistics(timeframe) (line 146)
CalculateSummaryStatistics ==
    /\ btPc = "simulated"
    /\ summary' = SummaryStatistics(results)
    /\ btPc' = "summarised"
    /\ UNCHANGED <<historical_data, start_idx, run, cur_idx, end_idx, raising, last_rankings,
                   bar_opportunities, results, returned, bar_log>>
    /\ UNCHANGED <<rankVars, tradeVars, detVars, liveVars, fnVars, dbVars, execVars>>

\* if self.db_manager: self._store_results_in_db(timeframe) (lines 149-150);
\* the save can fail, which _store_results_in_db logs and swallows
StoreResultsInDb ==
    /\ btPc = "summarised"
    /\ db_manager
    /\ \E saved \in BOOLEAN :
         db_rows' = IF saved
                    THEN Append(db_rows, [long |-> results.long, short |-> results.short,
                                          summary |-> summary])
                    ELSE db_rows
    /\ btPc' = "stored"
    /\ UNCHANGED <<historical_data, start_idx, run, cur_idx, end_idx, raising, last_rankings,
                   bar_opportunities, results, summary, returned, bar_log, db_manager>>
    /\ UNCHANGED <<rankVars, tradeVars, detVars, liveVars, fnVars, execVars>>

\* the return statement (lines 152-156)
ReturnResults ==
    /\ btPc = "stored" \/ (btPc = "summarised" /\ ~db_manager)
    /\ returned' = [long |-> results.long, short |-> results.short, summary |-> summary]
    /\ btPc' = "returned"
    /\ UNCHANGED <<historical_data, start_idx, run, cur_idx, end_idx, raising, last_rankings,
                   bar_opportunities, results, summary, bar_log>>
    /\ UNCHANGED <<rankVars, tradeVars, detVars, liveVars, fnVars, dbVars, execVars>>

\* ---- the phases of a run: run_backtest on a fresh engine, with or without
\*      a database manager, followed call by call ----
InitPhases ==
    /\ \E shapes \in RunShapes : historical_data = <<CandleSet(shapes)>>
    /\ start_idx = WarmupLen
    /\ end_idx = None
    /\ raising \in RunRaising
    /\ db_manager \in BOOLEAN
    /\ db_rows = <<>>
    /\ ExecIdle
    /\ run = 1
    /\ btPc = "call"
    /\ cur_idx = 0
    /\ last_rankings = NoneRec
    /\ bar_opportunities = [long |-> <<>>, short |-> <<>>]
    /\ results = [long |-> <<>>, short |-> <<>>]
    /\ summary = NoneRec
    /\ returned = NoneRec
    /\ bar_log = <<EmptyDict>>
    /\ RankIdle
    /\ TradeIdle
    /\ DetConstructed
    /\ HandlerConstructed
    /\ FnIdle

NextPhases ==
    \/ EnterRunBacktest
    \/ ProcessBar
    \/ SkipBar
    \/ SimulateTrades
    \/ CalculateSummaryStatistics
    \/ StoreResultsInDb
    \/ ReturnResults

\* a pass of the bar loop, whatever it computes: idx goes to the next bar
LoopPass ==
    /\ btPc = "loop"
    /\ cur_idx <= end_idx
    /\ cur_idx' = cur_idx + 1
    /\ btPc' = btPc

\* the steps of the thread that called run_backtest
RunsOn ==
    \/ EnterRunBacktest
    \/ LoopPass
    \/ SimulateTrades
    \/ CalculateSummaryStatistics
    \/ StoreResultsInDb
    \/ ReturnResults

\* where the thread that called run_backtest stands
position == <<btPc, cur_idx>>

\* the thread that called run_backtest keeps running until it returns
SpecPhases == InitPhases /\ [][NextPhases]_vars /\ WF_position(RunsOn)

\* ---- summary statistics: _calculate_summary_statistics on drawn trades ----
InitSummary ==
    /\ \E n \in 0..MaxTrades, m \in 0..MaxTrades :
         \E long_exits \in [1..n -> SummaryExits], short_exits \in [1..m -> SummaryExits] :
            results = [long  |-> SampleTrades("long", long_exits, 0),
                       short |-> SampleTrades("short", short_exits, MaxTrades)]
    /\ historical_data = <<EmptyDict>>
    /\ start_idx = 0
    /\ run = 1
    /\ btPc = "simulated"
    /\ cur_idx = 0
    /\ end_idx = None
    /\ raising = {}
    /\ NoDatabase
    /\ ExecIdle
    /\ last_rankings = NoneRec
    /\ bar_opportunities = [long |-> <<>>, short |-> <<>>]
    /\ summary = NoneRec
    /\ returned = NoneRec
    /\ bar_log = <<EmptyDict>>
    /\ RankIdle
    /\ TradeIdle
    /\ DetConstructed
    /\ HandlerConstructed
    /\ FnIdle

NextSummary == CalculateSummaryStatistics

SpecSummary == InitSummary /\ [][NextSummary]_vars

\* the caller starts run_backtest on the next candle set
CallRunBacktest ==
    /\ btPc = "returned"
    /\ run < Len(historical_data)
    /\ run' = run + 1
    /\ btPc' = "call"
    /\ end_idx' = None
    /\ UNCHANGED <<historical_data, start_idx, cur_idx, raising, last_rankings,
                   bar_opportunities, results, summary, returned, bar_log>>
    /\ UNCHANGED <<rankVars, tradeVars, detVars, liveVars, fnVars, dbVars, execVars>>

\* ---- backtest entries: run_backtest on a candle set whose bars are ranked
\*      as drawn ----
InitEntry ==
    /\ \E closes \in EntryCloses : historical_data = <<EntryData(closes)>>
    /\ start_idx = 0
    /\ run = 1
    /\ btPc = "call"
    /\ cur_idx = 0
    /\ end_idx = None
    /\ raising = {}
    /\ NoDatabase
    /\ ExecIdle
    /\ last_rankings = NoneRec
    /\ bar_opportunities = [long |-> <<>>, short |-> <<>>]
    /\ results = [long |-> <<>>, short |-> <<>>]
    /\ summary = NoneRec
    /\ returned = NoneRec
    /\ bar_log = <<EmptyDict>>
    /\ RankIdle
    /\ TradeIdle
    /\ DetConstructed
    /\ HandlerConstructed
    /\ FnIdle

NextEntry == EnterRunBacktest \/ ProcessRankedBar \/ FinishRunBacktest

SpecEntry == InitEntry /\ [][NextEntry]_vars

\* ---- detection cycles: the calls of detect_opportunities on a detector, or
\*      the bars of a backtest run over given rankings. The detector and
\*      the engine are two objects that share nothing, so a behaviour follows
\*      one of them ----
InitCycles == InitDet \/ InitEntry

DetectorCycle == btPc = "idle" /\ DetectOpportunities

NextCycles == DetectorCycle \/ EnterRunBacktest \/ ProcessRankedBar \/ FinishRunBacktest

SpecCycles == InitCycles /\ [][NextCycles]_vars

\* ---- two requests to /api/backtest served at a time: the handler calls
\*      run_backtest of the one engine of app_state from the thread of each
\*      request (web/server.py lines 303-309). An execution is followed
\*      statement by statement; self.results, self.summary and the database
\*      belong to the engine, everything else to the execution ----
Executions == {1, 2}

\* a detected opportunity as far as _simulate_trades reads it
Candidate(symbol, bar_idx) == [symbol |-> symbol, bar_idx |-> bar_idx]

\* what the bar loop of an execution leaves in detected_opportunities
ExecCandidates ==
    { [long |-> <<>>, short |-> <<>>],
      [long |-> <<Candidate(EntrySymbols[1], 0)>>, short |-> <<>>],
      [long |-> <<Candidate(EntrySymbols[1], 1)>>,
       short |-> <<Candidate(EntrySymbols[2], 0)>>],
      [long |-> <<Candidate(EntrySymbols[2], 1), Candidate(EntrySymbols[1], 0)>>,
       short |-> <<>>] }

InitShared ==
    /\ \E c1, c2 \in EntryCloses : historical_data = <<EntryData(c1), EntryData(c2)>>
    /\ start_idx = 0
    /\ run = 0
    /\ btPc = "idle"
    /\ cur_idx = 0
    /\ end_idx = None
    /\ raising = {}
    /\ db_manager = TRUE
    /\ db_rows = <<>>
    /\ execPc = [e \in Executions |-> "call"]
    /\ execLocals = [e \in Executions |->
                        [detected_opportunities |-> [long |-> <<>>, short |-> <<>>], k |-> 1]]
    /\ execReturned = [e \in Executions |-> NoneRec]
    /\ last_rankings = NoneRec
    /\ bar_opportunities = [long |-> <<>>, short |-> <<>>]
    /\ results = [long |-> <<>>, short |-> <<>>]
    /\ summary = NoneRec
    /\ returned = NoneRec
    /\ bar_log = <<>>
    /\ RankIdle
    /\ TradeIdle
    /\ DetConstructed
    /\ HandlerConstructed
    /\ FnIdle

\* what an execution step leaves alone
ExecFrame ==
    /\ UNCHANGED <<historical_data, start_idx, run, btPc, cur_idx, end_idx, raising,
                   last_rankings, bar_opportunities, returned, bar_log, db_manager>>
    /\ UNCHANGED <<rankVars, tradeVars, detVars, liveVars, fnVars>>

\* the bar loop of an execution (lines 88-131): it fills the local
\* detected_opportunities and touches nothing of the engine
ExecBarLoop ==
    \E e \in Executions :
       /\ execPc[e] = "call"
       /\ \E found \in ExecCandidates :
            execLocals' = [execLocals EXCEPT ![e].detected_opportunities = found]
       /\ execPc' = [execPc EXCEPT ![e] = "detected"]
       /\ UNCHANGED <<results, summary, db_rows, execReturned>>
       /\ ExecFrame

\* _simulate_trades: self.results = {'long': [], 'short': []} (lines 327-330)
ExecClearResults ==
    \E e \in Executions :
       /\ execPc[e] = "detected"
       /\ results' = [long |-> <<>>, short |-> <<>>]
       /\ execPc' = [execPc EXCEPT ![e] = "long"]
       /\ execLocals' = [execLocals EXCEPT ![e].k = 1]
       /\ UNCHANGED <<summary, db_rows, execReturned>>
       /\ ExecFrame

\* one pass of a loop of _simulate_trades (lines 333-360 and 363-390): the
\* trade of the k-th opportunity of the direction is appended to the list
\* self.results holds at that moment
ExecAppendTrade ==
    \E e \in Executions :
       /\ execPc[e] \in {"long", "short"}
       /\ \E direction \in {execPc[e]} :
          \E detected \in {execLocals[e].detected_opportunities[direction]} :
            IF execLocals[e].k <= Len(detected)
            THEN /\ results' =
                       [results EXCEPT ![direction] =
                           @ \o SimulateDirection(historical_data[e],
                                                  <<detected[execLocals[e].k]>>, 1, direction,
                                                  TAKE_PROFIT, STOP_LOSS, MAX_BARS)]
                 /\ execLocals' = [execLocals EXCEPT ![e].k = @ + 1]
                 /\ execPc' = execPc
            ELSE /\ results' = results
                 /\ execLocals' = [execLocals EXCEPT ![e].k = 1]
                 /\ execPc' = [execPc EXCEPT ![e] = IF direction = "long" THEN "short"
                                                    ELSE "simulated"]
       /\ UNCHANGED <<summary, db_rows, execReturned>>
       /\ ExecFrame

\* self._calculate_summary_statistics(timeframe) (line 146)
ExecSummary ==
    \E e \in Executions :
       /\ execPc[e] = "simulated"
       /\ summary' = SummaryStatistics(results)
       /\ execPc' = [execPc EXCEPT ![e] = "summarised"]
       /\ UNCHANGED <<results, db_rows, execLocals, execReturned>>
       /\ ExecFrame

\* if self.db_manager: self._store_results_in_db(timeframe) (lines 149-150)
ExecStore ==
    \E e \in Executions :
       /\ execPc[e] = "summarised"
       /\ db_manager
       /\ \E saved \in BOOLEAN :
            db_rows' = IF saved
                       THEN Append(db_rows, [long |-> results.long, short |-> results.short,
                                             summary |-> summary])
                       ELSE db_rows
       /\ execPc' = [execPc EXCEPT ![e] = "stored"]
       /\ UNCHANGED <<results, summary, execLocals, execReturned>>
       /\ ExecFrame

\* the return statement (lines 152-156)
ExecReturn ==
    \E e \in Executions :
       /\ execPc[e] = "stored"
       /\ execReturned' = [execReturned EXCEPT ![e] =
                              [long |-> results.long, short |-> results.short,
                               summary |-> summary]]
       /\ execPc' = [execPc EXCEPT ![e] = "returned"]
       /\ UNCHANGED <<results, summary, db_rows, execLocals>>
       /\ ExecFrame

NextShared ==
    \/ ExecBarLoop
    \/ ExecClearResults
    \/ ExecAppendTrade
    \/ ExecSummary
    \/ ExecStore
    \/ ExecReturn

SpecShared == InitShared /\ [][NextShared]_vars

\* ---- backtest ranges and failing bars: run_backtest called with a drawn
\*      start_idx and end_idx on a candle set, some of whose bars raise ----
InitRun ==
    /\ \E shapes \in RunShapes : historical_data = <<CandleSet(shapes)>>
    /\ start_idx \in RunStarts
    /\ end_idx \in RunEnds
    /\ raising \in RunRaising
    /\ NoDatabase
    /\ ExecIdle
    /\ run = 1
    /\ btPc = "call"
    /\ cur_idx = 0
    /\ last_rankings = NoneRec
    /\ bar_opportunities = [long |-> <<>>, short |-> <<>>]
    /\ results = [long |-> <<>>, short |-> <<>>]
    /\ summary = NoneRec
    /\ returned = NoneRec
    /\ bar_log = <<EmptyDict>>
    /\ RankIdle
    /\ TradeIdle
    /\ DetConstructed
    /\ HandlerConstructed
    /\ FnIdle

NextRun == EnterRunBacktest \/ ProcessBar \/ SkipBar \/ FinishRunBacktest

SpecRun == InitRun /\ [][NextRun]_vars

NextBacktest == EnterRunBacktest \/ ProcessBar \/ FinishRunBacktest \/ CallRunBacktest

SpecBacktest == InitBacktest /\ [][NextBacktest]_vars

(***************************************************************************)
(* Claims: ranking engine                                                  *)
(***************************************************************************)

RankedSymbols == DOMAIN rankings

\* C1: after calculate_rankings on a non-empty metrics mapping every
\* instrument of the mapping is ranked, and its overall_rank is 1 plus the
\* number of ranked instruments with a strictly smaller total_score (ties
\* share a rank, the rank after a tied group skips ahead).
C1_OverallRankCompetition ==
    (rankPc = "done" /\ metrics # <<>>) =>
        /\ RankedSymbols = {metrics[i].symbol : i \in 1..Len(metrics)}
        /\ \A s \in RankedSymbols :
              rankings[s].overall_rank =
                 1 + Cardinality({t \in RankedSymbols :
                                     rankings[t].total_score < rankings[s].total_score})

\* C1 witness: two instruments tie for rank 1 and a third gets rank 3.
C1_Witness ==
    /\ rankPc = "done"
    /\ \E s, t, u \in RankedSymbols :
         /\ s # t
         /\ rankings[s].overall_rank = 1
         /\ rankings[t].overall_rank = 1
         /\ rankings[u].overall_rank = 3

(***************************************************************************)
(* Claims: trade simulation                                                *)
(***************************************************************************)

TradeDone == tradePc = "done"

\* closes of the candles after the entry bar
ForwardCloses ==
    [i \in 1..(Len(symbol_data) - tradeArgs.entry_bar_idx - 1) |->
        symbol_data[tradeArgs.entry_bar_idx + 1 + i].close]

\* the scenario of C2/C3: take_profit 3.0, stop_loss 1.5, entry price 100,
\* forward closes 100.5, 98.4, 103.2, all three within max_bars
Scenario(direction) ==
    /\ tradeArgs.direction = direction
    /\ tradeArgs.take_profit = 30
    /\ tradeArgs.stop_loss = 15
    /\ tradeArgs.entry_price = 1000
    /\ ForwardCloses = <<1005, 984, 1032>>
    /\ tradeArgs.max_bars >= 3

\* the trade's pnl equals tenths/10 percent
PnlIsTenths(trade, tenths) == trade.pnl.num * 10 = tenths * trade.pnl.den

\* C2 as claimed: in the scenario a long exits at the third forward bar with
\* take_profit, pnl 3.2, bars_held 3.
C2_Original ==
    (TradeDone /\ Scenario("long")) =>
        /\ tradeResult # NoneRec
        /\ tradeResult.exitReason = "take_profit"
        /\ tradeResult.exitPrice = 1032
        /\ tradeResult.bars_held = 3
        /\ PnlIsTenths(tradeResult, 32)

\* C2 amended: in the scenario a long exits at the second forward bar
\* (close 98.4) with stop_loss, pnl -1.6, bars_held 2.
C2_LongScenarioStopsOut ==
    (TradeDone /\ Scenario("long")) =>
        /\ tradeResult # NoneRec
        /\ tradeResult.exitReason = "stop_loss"
        /\ tradeResult.exitPrice = 984
        /\ tradeResult.exitTime = tradeArgs.entry_bar_idx + 2
        /\ tradeResult.bars_held = 2
        /\ PnlIsTenths(tradeResult, -16)

\* C2 witness: the long scenario has been simulated.
C2_Witness == TradeDone /\ Scenario("long") /\ tradeResult # NoneRec

\* C3 as claimed: in the scenario a short exits at the second forward bar with
\* take_profit, pnl 1.6, bars_held 2.
C3_Original ==
    (TradeDone /\ Scenario("short")) =>
        /\ tradeResult # NoneRec
        /\ tradeResult.exitReason = "take_profit"
        /\ tradeResult.exitPrice = 984
        /\ tradeResult.bars_held = 2
        /\ PnlIsTenths(tradeResult, 16)

\* C3 amended: in the scenario a short exits at the third forward bar
\* (close 103.2) with stop_loss, pnl -3.2, bars_held 3.
C3_ShortScenarioStopsOut ==
    (TradeDone /\ Scenario("short")) =>
        /\ tradeResult # NoneRec
        /\ tradeResult.exitReason = "stop_loss"
        /\ tradeResult.exitPrice = 1032
        /\ tradeResult.exitTime = tradeArgs.entry_bar_idx + 3
        /\ tradeResult.bars_held = 3
        /\ PnlIsTenths(tradeResult, -32)

\* C3 witness: the short scenario has been simulated.
C3_Witness == TradeDone /\ Scenario("short") /\ tradeResult # NoneRec

\* The exit rule of C4, stated on the inputs alone.
\* number of forward bars the scan may look at
C4_Window == Min2(tradeArgs.max_bars, Len(symbol_data) - tradeArgs.entry_bar_idx - 1)
\* numerator of the running pnl at forward bar k (the denominator is entry_price)
C4_PnlNum(k) ==
    IF tradeArgs.direction = "long"
    THEN (ForwardCloses[k] - tradeArgs.entry_price) * 100
    ELSE (tradeArgs.entry_price - ForwardCloses[k]) * 100
C4_TakeProfitAt(k) == C4_PnlNum(k) * 10 >= tradeArgs.take_profit * tradeArgs.entry_price
C4_StopLossAt(k) == C4_PnlNum(k) * 10 <= (0 - tradeArgs.stop_loss) * tradeArgs.entry_price
C4_Triggers == {k \in 1..C4_Window : C4_TakeProfitAt(k) \/ C4_StopLossAt(k)}
C4_ExitBar ==
    IF C4_Triggers # {}
    THEN CHOOSE k \in C4_Triggers : \A j \in C4_Triggers : k <= j
    ELSE C4_Window
C4_ExitReason ==
    IF C4_Triggers = {} THEN "max_duration"
    ELSE IF C4_TakeProfitAt(C4_ExitBar) THEN "take_profit" ELSE "stop_loss"

\* C4: a trade with at least one future candle exits at the first forward bar
\* k in 1..max_bars whose running pnl is >= take_profit (take_profit) or
\* <= -stop_loss (stop_loss), else at the last available forward bar
\* (max_duration); bars_held = k and the pnl is the pnl at the exit bar.
C4_ExitRule ==
    (TradeDone /\ C4_Window >= 1) =>
        /\ tradeResult # NoneRec
        /\ tradeResult.bars_held = C4_ExitBar
        /\ tradeResult.bars_held \in 1..tradeArgs.max_bars
        /\ tradeResult.exitReason = C4_ExitReason
        /\ tradeResult.exitPrice = ForwardCloses[C4_ExitBar]
        /\ tradeResult.exitTime = tradeArgs.entry_bar_idx + C4_ExitBar
        /\ tradeResult.pnl = [num |-> C4_PnlNum(C4_ExitBar), den |-> tradeArgs.entry_price]

\* C4 witness: a trade whose first forward bar triggers nothing and whose
\* second one hits the take profit, although a later bar would stop it out.
C4_Witness ==
    /\ TradeDone
    /\ tradeResult # NoneRec
    /\ tradeResult.exitReason = "take_profit"
    /\ tradeResult.bars_held = 2
    /\ C4_Window >= 3
    /\ C4_StopLossAt(3)

(***************************************************************************)
(* Claims: backtest bar loop                                               *)
(***************************************************************************)

\* data[:n] as Python slices it
Prefix(data, n) == SubSeq(data, 1, Min2(n, Len(data)))

\* the two candle sets agree on every instrument's candles at indices <= i
AgreeUpTo(i) ==
    /\ DOMAIN historical_data[1] = DOMAIN historical_data[2]
    /\ \A s \in DOMAIN historical_data[1] :
          Prefix(historical_data[1][s], i + 1) = Prefix(historical_data[2][s], i + 1)

\* the bars both calls have processed
BarsOfBoth == DOMAIN bar_log[1] \cap DOMAIN bar_log[2]

\* C5: backtest no-look-ahead.  For two candle sets that agree on every
\* instrument's candles at indices <= i (later candles altered or removed in
\* one of them), the metrics, the rankings and the candidate entries that
\* run_backtest computes at bar i are the same in both runs.
C5_NoLookAhead ==
    btPc # "idle" =>
        \A i \in BarsOfBoth : AgreeUpTo(i) => bar_log[1][i] = bar_log[2][i]

\* both runs have processed a bar up to which the candle sets agree and behind
\* which they differ, with ranked instruments and a candidate entry at that bar
C5_Witness ==
    /\ btPc # "idle"
    /\ \E i \in BarsOfBoth :
          /\ AgreeUpTo(i)
          /\ ~AgreeUpTo(i + 1)
          /\ DOMAIN bar_log[2][i].rankings # {}
          /\ bar_log[2][i].opportunities.long # <<>>

(***************************************************************************)
(* Claims: opportunity detector                                            *)
(* Unprimed variables are the detector before a detect_opportunities call, *)
(* primed ones after it.                                                   *)
(***************************************************************************)

AllSymbols == {SymbolNames[i] : i \in 1..Len(SymbolNames)}

\* instruments in current.long / current.short of the last result
EmittedLong == {opportunities.long[i].symbol : i \in 1..Len(opportunities.long)}
EmittedShort == {opportunities.short[i].symbol : i \in 1..Len(opportunities.short)}

\* the call resets: no reset yet, or more than 3600 s since the last one
StepResets == last_detection_time = None \/ clock' - last_detection_time > 3600

\* the dedup sets the instrument tests of the call see
StepDedupLong == IF StepResets THEN {} ELSE detected_opportunities.long
StepDedupShort == IF StepResets THEN {} ELSE detected_opportunities.short

\* the snapshot of the current cycle and the earlier ones, in a history h
CurrentOf(h) == h[Len(h)]
EarlierOf(h) == 1..(Len(h) - 1)

SnapRank(h, j, s) ==
    IF s \in DOMAIN h[j].rankings THEN h[j].rankings[s].overall_rank ELSE 999
SnapRankSum(h, j, s) ==
    IF s \in DOMAIN h[j].rankings
    THEN h[j].rankings[s].volume_rank + h[j].rankings[s].momentum_rank
         + h[j].rankings[s].total_pct_rank + h[j].rankings[s].zscore_rank
         + h[j].rankings[s].price_rank
    ELSE 0
\* snapshot j is at most 180 s older than the current one
InWindow(h, j) ==
    /\ CurrentOf(h).timestamp - h[j].timestamp >= 0
    /\ CurrentOf(h).timestamp - h[j].timestamp <= 180
\* sum over the five ranks of (historical - current) against snapshot j
Improvement(h, j, s) == SnapRankSum(h, j, s) - SnapRankSum(h, Len(h), s)

LongCandidate(h, j, s) == InWindow(h, j) /\ SnapRank(h, j, s) > 20 /\ SnapRank(h, j, s) <= 40
ShortCandidate(h, j, s) == InWindow(h, j) /\ SnapRank(h, j, s) <= 20
NearestLong(h, j, s) ==
    LongCandidate(h, j, s) /\ \A k \in EarlierOf(h) : k > j => ~LongCandidate(h, k, s)
NearestShort(h, j, s) ==
    ShortCandidate(h, j, s) /\ \A k \in EarlierOf(h) : k > j => ~ShortCandidate(h, k, s)

\* C6: an instrument emitted in current.long (current.short) is in the long
\* (short) dedup set afterwards, and as long as no more than 3600 s have
\* elapsed since the detector's last reset it stays there and is not emitted
\* again by any later detect_opportunities call.
C6_DedupUntilReset ==
    [][\A s \in AllSymbols :
          /\ s \in EmittedLong' => s \in detected_opportunities'.long
          /\ s \in EmittedShort' => s \in detected_opportunities'.short
          /\ (s \in detected_opportunities.long /\ ~StepResets) =>
                (s \notin EmittedLong' /\ s \in detected_opportunities'.long)
          /\ (s \in detected_opportunities.short /\ ~StepResets) =>
                (s \notin EmittedShort' /\ s \in detected_opportunities'.short)
          /\ ~StepResets => last_detection_time' = last_detection_time]_vars

\* C6 witness: an announced instrument re-qualifies as a long in a later cycle
\* and is not emitted.
C6_Witness ==
    /\ detCalls >= 3
    /\ DetSymbol \in detected_opportunities.long
    /\ CheckRankingMovementForLong(ranking_history, DetSymbol)
    /\ opportunities.long = <<>>

\* C7: a detect_opportunities call clears both dedup sets and sets the
\* last-reset timestamp to now exactly when no reset has happened yet or more
\* than 3600 s have elapsed since the last one; every other call keeps all
\* announced instruments and the timestamp.
C7_ResetRule ==
    [][IF StepResets
       THEN /\ last_detection_time' = clock'
            /\ detected_opportunities'.long = EmittedLong'
            /\ detected_opportunities'.short = EmittedShort'
       ELSE /\ last_detection_time' = last_detection_time
            /\ detected_opportunities'.long = detected_opportunities.long \cup EmittedLong'
            /\ detected_opportunities'.short = detected_opportunities.short \cup EmittedShort'
      ]_vars

\* C7 witness: the last call came after the last reset (a resetting call leaves
\* clock = last_detection_time) and kept the instrument announced before it.
C7_Witness ==
    /\ detCalls >= 2
    /\ last_detection_time # None
    /\ clock - last_detection_time > 0
    /\ detected_opportunities.long # {}
    /\ opportunities.long = <<>>

\* C8 as claimed: an instrument not in the long dedup set is emitted in
\* current.long iff its overall_rank is <= 20 and SOME earlier snapshot at most
\* 180 s older has its overall_rank in (20, 40] and a five-rank improvement
\* against that snapshot > 50.
C8_Original ==
    [][\A s \in DOMAIN CurrentOf(ranking_history').rankings :
          s \notin StepDedupLong =>
             (s \in EmittedLong' <=>
                /\ SnapRank(ranking_history', Len(ranking_history'), s) <= 20
                /\ \E j \in EarlierOf(ranking_history') :
                      /\ LongCandidate(ranking_history', j, s)
                      /\ Improvement(ranking_history', j, s) > 50)]_vars

\* C8 amended: ... iff its overall_rank is <= 20 and the NEAREST earlier
\* snapshot at most 180 s older with its overall_rank in (20, 40] exists and
\* the five-rank improvement against that snapshot is > 50.
C8_LongTestNearest ==
    [][\A s \in DOMAIN CurrentOf(ranking_history').rankings :
          s \notin StepDedupLong =>
             (s \in EmittedLong' <=>
                /\ SnapRank(ranking_history', Len(ranking_history'), s) <= 20
                /\ \E j \in EarlierOf(ranking_history') :
                      /\ NearestLong(ranking_history', j, s)
                      /\ Improvement(ranking_history', j, s) > 50)]_vars

\* C8 witness: a long has been emitted against a snapshot ranked in (20, 40].
C8_Witness ==
    /\ DetSymbol \in EmittedLong
    /\ \E j \in EarlierOf(ranking_history) :
          NearestLong(ranking_history, j, DetSymbol)

\* C9 as claimed: an instrument not in the short dedup set is emitted in
\* current.short iff its overall_rank is in (20, 40] and SOME earlier snapshot
\* at most 180 s older has its overall_rank <= 20 and a five-rank degradation
\* against that snapshot > 50.
C9_Original ==
    [][\A s \in DOMAIN CurrentOf(ranking_history').rankings :
          s \notin StepDedupShort =>
             (s \in EmittedShort' <=>
                /\ SnapRank(ranking_history', Len(ranking_history'), s) > 20
                /\ SnapRank(ranking_history', Len(ranking_history'), s) <= 40
                /\ \E j \in EarlierOf(ranking_history') :
                      /\ ShortCandidate(ranking_history', j, s)
                      /\ 0 - Improvement(ranking_history', j, s) > 50)]_vars

\* C9 amended: ... iff its overall_rank is in (20, 40] and the NEAREST earlier
\* snapshot at most 180 s older with its overall_rank <= 20 exists and the
\* five-rank degradation against that snapshot is > 50.
C9_ShortTestNearest ==
    [][\A s \in DOMAIN CurrentOf(ranking_history').rankings :
          s \notin StepDedupShort =>
             (s \in EmittedShort' <=>
                /\ SnapRank(ranking_history', Len(ranking_history'), s) > 20
                /\ SnapRank(ranking_history', Len(ranking_history'), s) <= 40
                /\ \E j \in EarlierOf(ranking_history') :
                      /\ NearestShort(ranking_history', j, s)
                      /\ 0 - Improvement(ranking_history', j, s) > 50)]_vars

\* C9 witness: a short has been emitted against a snapshot ranked <= 20.
C9_Witness ==
    /\ DetSymbol \in EmittedShort
    /\ \E j \in EarlierOf(ranking_history) :
          NearestShort(ranking_history, j, DetSymbol)

\* C10: first match wins. If the nearest earlier in-window snapshot with the
\* overall_rank in the required band gives a five-rank sum that does not
\* exceed 50, the instrument is not flagged in this cycle, whatever older
\* snapshots would give.
C10_FirstMatchWins ==
    [][\A s \in DOMAIN CurrentOf(ranking_history').rankings :
          /\ (\E j \in EarlierOf(ranking_history') :
                 /\ NearestLong(ranking_history', j, s)
                 /\ Improvement(ranking_history', j, s) <= 50)
             => s \notin EmittedLong'
          /\ (\E j \in EarlierOf(ranking_history') :
                 /\ NearestShort(ranking_history', j, s)
                 /\ 0 - Improvement(ranking_history', j, s) <= 50)
             => s \notin EmittedShort']_vars

\* C10 witness: an instrument in the top 20 and not yet announced is not
\* flagged because the nearest band snapshot improves by 50 only, although an
\* older snapshot inside the window is in the band and improves by more.
C10_Witness ==
    /\ Len(ranking_history) >= 3
    /\ DetSymbol \in DOMAIN CurrentOf(ranking_history).rankings
    /\ SnapRank(ranking_history, Len(ranking_history), DetSymbol) <= 20
    /\ DetSymbol \notin detected_opportunities.long
    /\ opportunities.long = <<>>
    /\ \E j, k \in EarlierOf(ranking_history) :
          /\ k < j
          /\ NearestLong(ranking_history, j, DetSymbol)
          /\ Improvement(ranking_history, j, DetSymbol) <= 50
          /\ LongCandidate(ranking_history, k, DetSymbol)
          /\ Improvement(ranking_history, k, DetSymbol) > 50

(***************************************************************************)
(* Claims: ranking history of the detector                                 *)
(***************************************************************************)

\* the last n entries of a sequence
LastOf(seq, n) == SubSeq(seq, Len(seq) - n + 1, Len(seq))

\* C11: after any sequence of add_ranking_history / detect_opportunities calls
\* the ranking history holds at most 10 snapshots, and they are the most
\* recently appended ones in the order they were appended (the oldest one is
\* the one evicted).
C11_HistoryHoldsLatest ==
    /\ Len(ranking_history) <= 10
    /\ ranking_history = LastOf(snapshot_log, Min2(10, Len(snapshot_log)))

\* more than 10 snapshots were appended, by calls of both kinds: one was evicted
C11_Witness ==
    /\ Len(snapshot_log) > 10
    /\ Len(ranking_history) = 10
    /\ last_detection_time # None
    /\ last_detection_time > CycleSeconds
    /\ ranking_history[1] # snapshot_log[1]

\* no update-loop thread is between add_ranking_history and the end of its
\* detect_opportunities call
NoEvaluationInProgress == \A t \in ThreadIds : threadPc[t] # "mid"

\* C12: each evaluation cycle, the live update loop's included, appends exactly
\* one snapshot to the detector's ranking history: between evaluations the
\* number of snapshots appended so far is the number of cycles run.
C12_OneSnapshotPerCycle ==
    NoEvaluationInProgress => Len(snapshot_log) = cycles

\* C18: over any interleaving of start, stop and change_timeframe at most one
\* evaluation at a time is mutating the detector's history and dedup sets.
\* Two update-loop threads are never active on the same detector.
C18_SingleWriter ==
    /\ Cardinality({t \in ThreadIds : threadPc[t] = "mid"}) <= 1
    /\ Cardinality(ActiveThreads) <= 1

(***************************************************************************)
(* Claims: opportunity strength                                            *)
(***************************************************************************)

\* C13: the strength _calculate_opportunity_strength returns lies between 0 and
\* 100 inclusive (here in thousandths of a point) for every ranking, change and
\* metric record and for both directions.
C13_StrengthInRange ==
    strengthResult # None => strengthResult >= 0 /\ strengthResult <= 100000

(***************************************************************************)
(* Claims: backtest entries and their trades                               *)
(***************************************************************************)

\* the candidates recorded so far for a direction, an instrument and a bar
CandidatesOf(direction, symbol, bar) ==
    {k \in 1..Len(bar_opportunities[direction]) :
        /\ bar_opportunities[direction][k].symbol = symbol
        /\ bar_opportunities[direction][k].bar_idx = bar}

\* what bar i of the run was handed for instrument s
RankAt(i, s) == bar_log[1][i].rankings[s].overall_rank
RankChangeAt(i, s) == bar_log[1][i].ranking_changes[s].overall_rank_change
MomentumAt(i, s) == bar_log[1][i].metrics[s].momentum_metric

LongCriteria(i, s) ==
    /\ s \in DOMAIN bar_log[1][i].rankings
    /\ RankAt(i, s) <= 20 /\ RankChangeAt(i, s) > 0 /\ MomentumAt(i, s) > 0
ShortCriteria(i, s) ==
    /\ s \in DOMAIN bar_log[1][i].rankings
    /\ RankAt(i, s) > 20 /\ RankAt(i, s) <= 40 /\ RankChangeAt(i, s) < 0
    /\ MomentumAt(i, s) < 0

\* C14: at each processed bar a long candidate is recorded for an instrument
\* if and only if overall_rank <= 20, overall_rank_change > 0 and
\* momentum_metric > 0, a short candidate if and only if 20 < overall_rank <= 40,
\* overall_rank_change < 0 and momentum_metric < 0; every qualifying
\* (instrument, bar) pair has a candidate of its own, whatever earlier bars
\* recorded.
C14_EntryCriteria ==
    bar_log # <<>> =>
        /\ \A i \in DOMAIN bar_log[1] : \A s \in AllSymbols :
              /\ Cardinality(CandidatesOf("long", s, i)) = IF LongCriteria(i, s) THEN 1 ELSE 0
              /\ Cardinality(CandidatesOf("short", s, i)) = IF ShortCriteria(i, s) THEN 1 ELSE 0
        /\ \A d \in {"long", "short"} : \A k \in 1..Len(bar_opportunities[d]) :
              bar_opportunities[d][k].bar_idx \in DOMAIN bar_log[1]

\* an instrument is a long candidate at two bars in a row, and there is a short
\* candidate as well
C14_Witness ==
    /\ bar_log # <<>>
    /\ \E i \in DOMAIN bar_log[1], s \in AllSymbols :
          /\ i + 1 \in DOMAIN bar_log[1]
          /\ CandidatesOf("long", s, i) # {} /\ CandidatesOf("long", s, i + 1) # {}
    /\ bar_opportunities.short # <<>>

\* the trades of a direction that were entered on an instrument at a bar
TradesOf(direction, symbol, bar) ==
    {k \in 1..Len(results[direction]) :
        /\ results[direction][k].symbol = symbol
        /\ results[direction][k].entryTime = historical_data[1][symbol][bar + 1].timestamp}

HasLaterCandle(symbol, bar) == Len(historical_data[1][symbol]) > bar + 1

\* C15: a candidate entry produces a SimulatedTrade if and only if the
\* instrument has at least one candle after the entry bar: a candidate at the
\* instrument's last candle produces no trade, every other candidate exactly
\* one, and there is no trade without a candidate.
C15_TradeIffLaterCandle ==
    btPc = "returned" /\ returned.summary # NoneRec =>
        \A d \in {"long", "short"} :
            /\ \A k \in 1..Len(bar_opportunities[d]) :
                  LET c == bar_opportunities[d][k]
                  IN  Cardinality(TradesOf(d, c.symbol, c.bar_idx)) =
                         IF HasLaterCandle(c.symbol, c.bar_idx) THEN 1 ELSE 0
            /\ Len(results[d]) =
                  Cardinality({k \in 1..Len(bar_opportunities[d]) :
                                  HasLaterCandle(bar_opportunities[d][k].symbol,
                                                 bar_opportunities[d][k].bar_idx)})

\* a finished run with a candidate at an instrument's last candle and trades
\* in both directions
C15_Witness ==
    /\ btPc = "returned" /\ returned.summary # NoneRec
    /\ \E d \in {"long", "short"} : \E k \in 1..Len(bar_opportunities[d]) :
          ~HasLaterCandle(bar_opportunities[d][k].symbol, bar_opportunities[d][k].bar_idx)
    /\ results.long # <<>> /\ results.short # <<>>

\* ---- the bar range of a backtest ----

\* the range of the running call is one the contract of run_backtest rejects
InvalidRange ==
    \/ start_idx < 0
    \/ start_idx >= end_idx
    \/ end_idx >= MaxLen(historical_data[run])

NothingComputed ==
    /\ bar_log[run] = EmptyDict
    /\ bar_opportunities = [long |-> <<>>, short |-> <<>>]
    /\ results = [long |-> <<>>, short |-> <<>>]
    /\ summary = NoneRec

CandidateBars ==
    {bar_opportunities.long[k].bar_idx : k \in 1..Len(bar_opportunities.long)}
    \cup {bar_opportunities.short[k].bar_idx : k \in 1..Len(bar_opportunities.short)}

\* C17: a bar whose processing raises does not end the run: it leaves no
\* candidate, the other bars of start_idx..end_idx are processed in order
\* (the processed bars are always the bars before the current one that did not
\* raise), and the run ends behind end_idx with its trades simulated and its
\* summary computed
C17_FailedBarIsolated ==
    (btPc \in {"loop", "returned"} /\ ~InvalidRange) =>
        /\ DOMAIN bar_log[run] = {i \in start_idx..(cur_idx - 1) : i \notin raising}
        /\ CandidateBars \cap raising = {}
        /\ btPc = "returned" =>
              /\ cur_idx = end_idx + 1
              /\ returned # NoneRec
              /\ returned.summary = SummaryStatistics(results)
              /\ returned.summary # NoneRec

C17_Witness ==
    /\ btPc = "returned"
    /\ ~InvalidRange
    /\ \E i \in raising :
          /\ start_idx <= i /\ i < end_idx
          /\ i - 1 \in DOMAIN bar_log[run]
          /\ i \notin DOMAIN bar_log[run]
          /\ \E j \in CandidateBars : j > i
\* ---- ranking changes ----

RankFields ==
    {<<"volume_rank", "volume_rank_change">>, <<"momentum_rank", "momentum_rank_change">>,
     <<"total_pct_rank", "total_pct_rank_change">>, <<"zscore_rank", "zscore_rank_change">>,
     <<"price_rank", "price_rank_change">>, <<"overall_rank", "overall_rank_change">>}

NoPreviousFor(symbol) ==
    \/ "none" \in DOMAIN changesArgs.previous_rankings
    \/ symbol \notin DOMAIN changesArgs.previous_rankings

\* C19: calculate_ranking_changes returns an entry for every instrument of the
\* current rankings and for no other; each of its six deltas is the integer
\* previous rank - current rank, and the integer 0 when there is no previous
\* ranking at all or none for the instrument
C19_RankingChanges ==
    changesResult # NoneRec =>
        /\ DOMAIN changesResult = DOMAIN changesArgs.current_rankings
        /\ \A symbol \in DOMAIN changesResult :
              /\ changesResult[symbol].symbol = symbol
              /\ DOMAIN changesResult[symbol] = {"symbol"} \cup {f[2] : f \in RankFields}
              /\ \A f \in RankFields :
                    /\ changesResult[symbol][f[2]] \in Int
                    /\ changesResult[symbol][f[2]] =
                          IF NoPreviousFor(symbol) THEN 0
                          ELSE changesArgs.previous_rankings[symbol][f[1]]
                               - changesArgs.current_rankings[symbol][f[1]]

C19_Witness ==
    /\ changesResult # NoneRec
    /\ "none" \notin DOMAIN changesArgs.previous_rankings
    /\ \E a, b, c \in DOMAIN changesResult :
          /\ a \in DOMAIN changesArgs.previous_rankings
          /\ changesResult[a].overall_rank_change > 0
          /\ c \in DOMAIN changesArgs.previous_rankings
          /\ changesResult[c].volume_rank_change < 0
          /\ b \notin DOMAIN changesArgs.previous_rankings
          /\ changesResult[b].overall_rank_change = 0
\* ---- per-metric ranks ----

MetricRankFields ==
    {<<"volume_metric", "volume_rank">>, <<"momentum_metric", "momentum_rank">>,
     <<"total_pct_change", "total_pct_rank">>, <<"zscore_metric", "zscore_rank">>,
     <<"price_metric", "price_rank">>}

\* the value an instrument is ranked by: its metric, a missing one as 0.0
RankedValue(record, metric_key) ==
    IF record[metric_key] = None THEN 0 ELSE record[metric_key]

StrictlyGreater(symbol, metric_key) ==
    {other \in DOMAIN rankings :
        RankedValue(rankings[other], metric_key) > RankedValue(rankings[symbol], metric_key)}

\* C20: for each of the five metrics the rank of an instrument is 1 plus the
\* number of ranked instruments whose value is strictly greater, a missing
\* value counting as 0.0; instruments with equal values have the same rank,
\* the place of the first of them in the descending order
C20_PerMetricRank ==
    rankPc = "done" =>
        /\ DOMAIN rankings = {metrics[i].symbol : i \in 1..Len(metrics)}
        /\ \A symbol \in DOMAIN rankings : \A f \in MetricRankFields :
              /\ rankings[symbol][f[2]] = 1 + Cardinality(StrictlyGreater(symbol, f[1]))
              /\ \A other \in DOMAIN rankings :
                    RankedValue(rankings[other], f[1]) = RankedValue(rankings[symbol], f[1])
                    => rankings[other][f[2]] = rankings[symbol][f[2]]

C20_Witness ==
    /\ rankPc = "done"
    /\ \E a, b, c \in DOMAIN rankings :
          /\ a # b
          /\ rankings[a].volume_metric = 1 /\ rankings[b].volume_metric = 1
          /\ rankings[a].volume_rank = 1 /\ rankings[b].volume_rank = 1
          /\ rankings[c].volume_metric = None /\ rankings[c].volume_rank = 3
          /\ rankings[a].price_metric = None /\ rankings[a].price_rank = 2
\* ---- total score ----

\* C21: in every record calculate_rankings returns, total_score is the sum of
\* the five per-metric ranks of the same record
C21_TotalScoreIsRankSum ==
    rankPc \in {"done", "again"} =>
        \A symbol \in DOMAIN rankings :
            rankings[symbol].total_score =
                rankings[symbol].volume_rank + rankings[symbol].momentum_rank
                + rankings[symbol].total_pct_rank + rankings[symbol].zscore_rank
                + rankings[symbol].price_rank

C21_Witness ==
    /\ rankPc = "done"
    /\ \E a, b \in DOMAIN rankings :
          /\ rankings[a].price_metric = None
          /\ rankings[a].price_rank > 1
          /\ rankings[a].volume_rank = 1
          /\ rankings[a].total_score > rankings[b].total_score
          /\ rankings[b].price_rank = 1

\* ---- a second call on the same mapping ----

RsiCalled == indicatorResult # <<>>

\* C23: for a candle sequence longer than period the list calculate_rsi
\* returns has the length of the sequence, and its entry for the 0-based
\* candle i is None exactly when i < period (every None is leading)
C23_RsiAligned ==
    (RsiCalled /\ Len(indicatorArgs.data) > indicatorArgs.period) =>
        /\ Len(indicatorResult) = Len(indicatorArgs.data)
        /\ \A k \in 1..Len(indicatorResult) :
              (indicatorResult[k] = None) <=> (k - 1 < indicatorArgs.period)
\* ---- the state of the price metric ----

\* the 0-based position of the most recent bar of data with a buy or sell
\* signal of the Supertrend, None without one
MostRecentSignalBar(data) ==
    LET supertrend == CalculateSupertrend(data, SUPERTREND_PERIOD, SUPERTREND_MULTIPLIER)
        bars == {i \in 1..Len(supertrend) :
                    supertrend[i].buy_signal \/ supertrend[i].sell_signal}
    IN  IF bars = {} THEN None
        ELSE (CHOOSE i \in bars : \A j \in bars : j <= i) - 1

IndicatorPeriods ==
    {VOLUME_BASELINE_PERIOD, MOMENTUM_PERIOD, ZSCORE_PERIOD, SUPERTREND_PERIOD}

LargestIndicatorPeriod == CHOOSE p \in IndicatorPeriods : \A q \in IndicatorPeriods : q <= p

EnoughCandles == {s \in DOMAIN candle_data : Len(candle_data[s]) >= LargestIndicatorPeriod}

\* C25: calculate_all_metrics emits a record for exactly the instruments
\* whose candle count is at least the largest of the four indicator periods:
\* an instrument below that count is neither in the metrics nor in the
\* rankings computed from them, every other instrument is in both
C25_ShortInstrumentsSkipped ==
    /\ rankPc \in {"input", "done"} =>
          {metrics[i].symbol : i \in 1..Len(metrics)} = EnoughCandles
    /\ rankPc = "done" => DOMAIN rankings = EnoughCandles

C25_Witness ==
    /\ rankPc = "done"
    /\ \E a, b, c \in DOMAIN candle_data :
          /\ Len(candle_data[a]) = LargestIndicatorPeriod - 1
          /\ a \notin DOMAIN rankings
          /\ Len(candle_data[b]) = LargestIndicatorPeriod
          /\ Len(candle_data[c]) > LargestIndicatorPeriod
          /\ {b, c} \subseteq DOMAIN rankings
          /\ rankings[b].overall_rank # rankings[c].overall_rank
\* ---- summary counts ----

Wins(trade) == trade.pnl.num > 0

TradeSetOf(set) ==
    IF set = "combined" THEN results.long \o results.short ELSE results[set]

CountsOf(set) ==
    LET trades == TradeSetOf(set)
        record == summary[set]
    IN  /\ record.totalTrades = Len(trades)
        /\ record.winningTrades = Cardinality({i \in 1..Len(trades) : Wins(trades[i])})
        /\ record.winningTrades + record.losingTrades = record.totalTrades
        /\ trades = <<>> =>
              /\ record.totalTrades = 0 /\ record.winningTrades = 0
              /\ record.losingTrades = 0 /\ record.winRate = 0

\* C26: in the long, the short and the combined summary totalTrades is the
\* number of trades of the set, winningTrades the number of its trades with
\* pnl > 0, and winningTrades + losingTrades = totalTrades (a trade with
\* pnl = 0 counts as losing); without trades the counts and the rate are 0
C26_SummaryCounts ==
    btPc = "summarised" => \A set \in {"long", "short", "combined"} : CountsOf(set)

C26_Witness ==
    /\ btPc = "summarised"
    /\ results.short = <<>>
    /\ summary.short.totalTrades = 0
    /\ \E i, j, k \in 1..Len(results.long) :
          /\ results.long[i].pnl.num = 0
          /\ results.long[j].pnl.num > 0
          /\ results.long[k].pnl.num < 0
    /\ summary.long.winningTrades = 1
    /\ summary.long.losingTrades = 2
    /\ summary.combined.totalTrades = 3
\* ---- the phases of a run ----

NoTradeSimulated == results = [long |-> <<>>, short |-> <<>>]

PhaseOrder ==
    /\ btPc = "loop" =>
          /\ DOMAIN bar_log[run] = {i \in start_idx..(cur_idx - 1) : i \notin raising}
          /\ NoTradeSimulated /\ summary = NoneRec /\ db_rows = <<>>
    /\ btPc \in {"simulated", "summarised", "stored", "returned"} =>
          DOMAIN bar_log[run] = {i \in start_idx..end_idx : i \notin raising}
    /\ btPc = "simulated" => summary = NoneRec /\ db_rows = <<>>
    /\ btPc = "summarised" => summary = SummaryStatistics(results) /\ db_rows = <<>>
    /\ db_rows # <<>> =>
          /\ db_manager
          /\ btPc \in {"stored", "returned"}
          /\ db_rows = <<[long |-> results.long, short |-> results.short, summary |-> summary]>>
          /\ summary # NoneRec
    /\ btPc = "returned" =>
          returned = [long |-> results.long, short |-> results.short, summary |-> summary]

\* C27: in a run over a valid range the bars of start_idx..end_idx are
\* processed one after the other in ascending order before a trade is
\* simulated, the trades before the summary, the results are saved only once
\* the summary exists and only with a database manager, and the run ends by
\* returning the long trades, the short trades and the summary
C27_PhaseOrder ==
    /\ []PhaseOrder
    /\ [][(cur_idx' # cur_idx /\ btPc = "loop") => cur_idx' = cur_idx + 1]_vars
    /\ <>(btPc = "returned" /\ returned # NoneRec)

C27_Witness ==
    /\ btPc = "returned"
    /\ db_manager
    /\ db_rows # <<>>
    /\ raising # {}
    /\ bar_opportunities.long # <<>>
    /\ returned.summary.combined.totalTrades = Len(results.long) + Len(results.short)

\* ---- the signals of the Supertrend ----

SupertrendCalled == indicatorResult # <<>>

\* the two positions calculate_price_metric looks up in a Supertrend series
LatestBuySignalIdx(supertrend)  == LatestSignal(supertrend, "buy_signal", Len(supertrend) - 1)
LatestSellSignalIdx(supertrend) == LatestSignal(supertrend, "sell_signal", Len(supertrend) - 1)

\* C28: in a series calculate_supertrend returns, signal_change of a bar is
\* true exactly when its in_uptrend differs from in_uptrend of the bar
\* before, no bar has buy_signal and sell_signal both true, and the latest
\* buy-signal position and the latest sell-signal position found by
\* calculate_price_metric are different whenever there is a signal
C28_SupertrendSignals ==
    SupertrendCalled =>
       /\ \A k \in 2..Len(indicatorResult) :
             indicatorResult[k].signal_change
                <=> (indicatorResult[k].in_uptrend # indicatorResult[k - 1].in_uptrend)
       /\ \A k \in 1..Len(indicatorResult) :
             "buy_signal" \in DOMAIN indicatorResult[k] =>
                /\ ~(indicatorResult[k].buy_signal /\ indicatorResult[k].sell_signal)
                /\ indicatorResult[k].buy_signal
                      <=> (indicatorResult[k].signal_change /\ indicatorResult[k].in_uptrend)
                /\ indicatorResult[k].sell_signal
                      <=> (indicatorResult[k].signal_change /\ ~indicatorResult[k].in_uptrend)
       /\ (LatestBuySignalIdx(indicatorResult) # None
             \/ LatestSellSignalIdx(indicatorResult) # None)
            => LatestBuySignalIdx(indicatorResult) # LatestSellSignalIdx(indicatorResult)

C28_Witness ==
    /\ SupertrendCalled
    /\ LatestBuySignalIdx(indicatorResult) # None
    /\ LatestSellSignalIdx(indicatorResult) # None
    /\ LatestSellSignalIdx(indicatorResult) < LatestBuySignalIdx(indicatorResult)

\* ---- long and short in one detection cycle ----

SymbolsOf(found) == {found[i].symbol : i \in 1..Len(found)}

\* C29: no instrument is emitted as a long and as a short opportunity in one
\* detection cycle: the long and the short list one detect_opportunities call
\* returns as current name different instruments, and so do the long and the
\* short candidates the backtest finds at one bar
C29_LongShortDisjoint ==
    /\ SymbolsOf(opportunities.long) \cap SymbolsOf(opportunities.short) = {}
    /\ \A r \in 1..Len(bar_log) : \A idx \in DOMAIN bar_log[r] :
          SymbolsOf(bar_log[r][idx].opportunities.long)
             \cap SymbolsOf(bar_log[r][idx].opportunities.short) = {}

C29_Witness ==
    \E r \in 1..Len(bar_log) : \E idx, earlier \in DOMAIN bar_log[r] :
       /\ bar_log[r][idx].opportunities.long # <<>>
       /\ bar_log[r][idx].opportunities.short # <<>>
       /\ earlier < idx
       /\ SymbolsOf(bar_log[r][earlier].opportunities.short)
             \cap SymbolsOf(bar_log[r][idx].opportunities.long) # {}

\* ---- executions of run_backtest on one engine ----

\* the trades of the opportunities execution e detected
OwnTrades(e) ==
    [long  |-> SimulateDirection(historical_data[e], execLocals[e].detected_opportunities.long,
                                 1, "long", TAKE_PROFIT, STOP_LOSS, MAX_BARS),
     short |-> SimulateDirection(historical_data[e], execLocals[e].detected_opportunities.short,
                                 1, "short", TAKE_PROFIT, STOP_LOSS, MAX_BARS)]

\* C30: of two run_backtest executions on one engine, each returns the
\* trades of the opportunities it detected itself, no more and no less, and
\* the summary of these trades
C30_RunsIsolated ==
    \A e \in Executions :
       execPc[e] = "returned" =>
          /\ execReturned[e].long = OwnTrades(e).long
          /\ execReturned[e].short = OwnTrades(e).short
          /\ execReturned[e].summary = SummaryStatistics(OwnTrades(e))
====
